---- MODULE Spec2Model ----
(***************************************************************************)
(* Session lifecycle of the Isaac Lab docker session manager               *)
(* (docker/runner.py, docker/src/container_interface.py,                   *)
(* docker/src/gui/x11.py).                                                 *)
(*                                                                         *)
(* Each element of Procs is one invocation of the CLI at a time: it        *)
(* constructs a ContainerInterface, runs one of start / enter / stop and   *)
(* exits.  The container engine, the host's /tmp and the state file        *)
(* .container.cfg are shared by all invocations.                           *)
(*                                                                         *)
(* Strings that the code inspects by prefix, substring or suffix (the      *)
(* compose profile, the container name after "isaac-lab-") are sequences   *)
(* of their hyphen-separated tokens: "ros2-webrtc-remote" is               *)
(* <<"ros2", "webrtc", "remote">>.                                         *)
(***************************************************************************)
EXTENDS Integers, Sequences, FiniteSets, TLC

\* Number of session ids the model lets generate_session_id hand out.
MaxSessions == 2

\* The CLI invocations that may overlap.
Procs == {1, 2}

\* Python's None / an unset environment variable.
NULL == "null"

GuiModes == {"none", "x11", "webrtc"}

VARIABLES
    containers,  \* engine: the running isaac-lab containers, with their labels
    sidecars,    \* engine: session ids whose tailscale-<sid> sidecar exists
    store,       \* .container.cfg: section -> (key -> value)
    files,       \* host: the .xauth files that exist in /tmp, by path
    nextPath,    \* host: the next path mktemp hands out
    history,     \* host: session ids with a bash_history-<sid> file
    clock,       \* the last value generate_session_id returned
    pc,          \* per invocation: position in the runner's flow
    cmd,         \* per invocation: the action chosen (start, enter, stop)
    ci,          \* per invocation: the ContainerInterface object
    inp,         \* per invocation: the choices made by the user for start
    row,         \* per invocation: the registry row selected by enter / stop
    calls,       \* per invocation: external calls made so far, in order
    result       \* per invocation: how the command ended

vars == <<containers, sidecars, store, files, nextPath, history, clock,
          pc, cmd, ci, inp, row, calls, result>>

world == <<containers, sidecars, store, files, nextPath, history>>

------------------------------------------------------------------------------
(* Profile strings *)

BASE == <<"base">>
ROS2 == <<"ros2">>

\* str.startswith(tok) for a token of the profile alphabet
StartsWithTok(prof, tok) == Len(prof) >= 1 /\ prof[1] = tok

\* tok in str
ContainsTok(prof, tok) == \E i \in 1..Len(prof) : prof[i] = tok

\* str.endswith("-" + tok): the last token, and it is not the only one
EndsWithDashTok(prof, tok) == Len(prof) >= 2 /\ prof[Len(prof)] = tok

\* str.endswith(a + "-" + b)
EndsWithToks(prof, a, b) ==
    Len(prof) >= 2 /\ prof[Len(prof) - 1] = a /\ prof[Len(prof)] = b

ResolveProfile_SwapRemote(gui, ros, remote) ==
    IF gui = "none" /\ ~ros THEN BASE
    ELSE IF gui = "none" /\ ros THEN ROS2
    ELSE IF gui = "webrtc" /\ ~ros
         THEN (IF remote THEN <<"webrtc", "remote">> ELSE <<"webrtc", "local">>)
    ELSE IF gui = "webrtc" /\ ros
         THEN (IF remote THEN <<"ros2", "webrtc", "local">>
                         ELSE <<"ros2", "webrtc", "remote">>)
    ELSE IF gui = "x11" /\ ~ros THEN BASE
    ELSE IF gui = "x11" /\ ros THEN ROS2
    ELSE BASE

\* runner.py: "Map to compose profile"
ResolveProfile(gui, ros, remote) ==
    IF gui = "none" /\ ~ros THEN BASE
    ELSE IF gui = "none" /\ ros THEN ROS2
    ELSE IF gui = "webrtc" /\ ~ros
         THEN (IF remote THEN <<"webrtc", "remote">> ELSE <<"webrtc", "local">>)
    ELSE IF gui = "webrtc" /\ ros
         THEN (IF remote THEN <<"ros2", "webrtc", "remote">>
                         ELSE <<"ros2", "webrtc", "local">>)
    ELSE IF gui = "x11" /\ ~ros THEN BASE
    ELSE IF gui = "x11" /\ ros THEN ROS2
    ELSE BASE

StartEnvs_TunnelFirst(gui, ros, remote) ==
    <<"base">>
    \o (IF gui = "webrtc" /\ remote THEN <<"tailscale">> ELSE <<>>)
    \o (IF ros THEN <<"ros2">> ELSE <<>>)
    \o (IF gui = "webrtc" THEN <<"webrtc">> ELSE <<>>)

\* runner.py, start: the env files handed to ci.configure
StartEnvs(gui, ros, remote) ==
    <<"base">>
    \o (IF ros THEN <<"ros2">> ELSE <<>>)
    \o (IF gui = "webrtc" THEN <<"webrtc">> ELSE <<>>)
    \o (IF gui = "webrtc" /\ remote THEN <<"tailscale">> ELSE <<>>)

ProfileEnvs_TunnelForWebrtc(prof) ==
    <<"base">>
    \o (IF StartsWithTok(prof, "ros2") THEN <<"ros2">> ELSE <<>>)
    \o (IF ContainsTok(prof, "webrtc") THEN <<"webrtc", "tailscale">> ELSE <<>>)

\* runner.py, enter and stop: the env files re-seeded from the row's profile
ProfileEnvs(prof) ==
    <<"base">>
    \o (IF StartsWithTok(prof, "ros2") THEN <<"ros2">> ELSE <<>>)
    \o (IF ContainsTok(prof, "webrtc") THEN <<"webrtc">> ELSE <<>>)
    \o (IF EndsWithDashTok(prof, "remote") THEN <<"tailscale">> ELSE <<>>)

------------------------------------------------------------------------------
(* The state file (.container.cfg) *)

XauthKey == "__ISAACLAB_TMP_XAUTH"
EnabledKey == "X11_FORWARDING_ENABLED"

\* Session ids and /tmp paths are strings, as in the code.
SidOf(n) == ToString(n)
PathOf(n) == ToString(n)

\* statefile.namespace = f"X11-{session_id}"
Ns(sid) == <<"X11", sid>>

\* statefile.namespace is None
NoNs == <<>>

\* the legacy global section "X11"
LegacyNs == <<"X11">>

Without(f, k) == [x \in DOMAIN f \ {k} |-> f[x]]

\* StateFile.get_variable: the value, or None
GetVariable(st, ns, key) ==
    IF ns \in DOMAIN st /\ key \in DOMAIN st[ns] THEN st[ns][key] ELSE NULL

\* StateFile.set_variable: creates the section lazily
SetVariable(st, ns, key, val) ==
    LET sec == IF ns \in DOMAIN st THEN st[ns] ELSE <<>>
    IN  [x \in DOMAIN st \cup {ns} |->
            IF x = ns THEN [k \in DOMAIN sec \cup {key} |->
                               IF k = key THEN val ELSE sec[k]]
            ELSE st[x]]

\* StateFile.delete_variable: removes one key of the section
DeleteVariable(st, ns, key) ==
    IF ns \in DOMAIN st
    THEN [st EXCEPT ![ns] = Without(st[ns], key)]
    ELSE st

\* StateFile.delete_section: removes the whole section
DeleteSection(st, ns) == Without(st, ns)

------------------------------------------------------------------------------
(* Display-forwarding credential (docker/src/gui/x11.py).  A credential     *)
(* state cs is [store, files, nextPath]; every function returns the new     *)
(* credential state and how it ended: "ok", "raise" (an ordinary            *)
(* exception) or "exit" (exit(1), a SystemExit).                            *)
(* xauth is the host's xauth utility: "missing", "fails" (non-zero exit)    *)
(* or "ok".                                                                 *)

XauthStates == {"missing", "fails", "ok"}

CredState(st, fs, np) == [store |-> st, files |-> fs, nextPath |-> np]

Ended(cs, outcome, path) == [cs |-> cs, outcome |-> outcome, path |-> path]

ConfigureX11_AlwaysCreate(cs, ns, xauth) ==
    IF xauth = "missing" THEN Ended(cs, "exit", NULL)
    ELSE
    LET st1 == IF ns # NoNs /\ ns # LegacyNs
               THEN DeleteSection(cs.store, LegacyNs) ELSE cs.store
        p == PathOf(cs.nextPath)
    IN  IF xauth = "fails"
        THEN Ended(CredState(st1, cs.files \cup {p}, cs.nextPath + 1), "raise", NULL)
        ELSE Ended(CredState(SetVariable(st1, ns, XauthKey, p),
                             cs.files \cup {p}, cs.nextPath + 1), "ok", p)

\* configure_x11: ensure(namespace)
ConfigureX11(cs, ns, xauth) ==
    IF xauth = "missing" THEN Ended(cs, "exit", NULL)
    ELSE
    LET st1 == IF ns # NoNs /\ ns # LegacyNs
               THEN DeleteSection(cs.store, LegacyNs) ELSE cs.store
        v == GetVariable(st1, ns, XauthKey)
        \* mktemp -d, then mktemp --suffix=.xauth --tmpdir: a fresh file
        p == PathOf(cs.nextPath)
    IN  IF v = NULL \/ v \notin cs.files
        THEN IF xauth = "fails"
             \* create_x11_tmpfile raises after mktemp made the file
             THEN Ended(CredState(st1, cs.files \cup {p}, cs.nextPath + 1), "raise", NULL)
             ELSE Ended(CredState(SetVariable(st1, ns, XauthKey, p),
                                  cs.files \cup {p}, cs.nextPath + 1), "ok", p)
        ELSE Ended(CredState(st1, cs.files, cs.nextPath), "ok", v)

X11Check_IgnoreDisplay(cs, ns, display, xauth) == ConfigureX11(cs, ns, xauth)

\* x11_check: None ("none") without DISPLAY, else configure_x11
X11Check(cs, ns, display, xauth) ==
    IF ~display THEN Ended(cs, "none", NULL) ELSE ConfigureX11(cs, ns, xauth)

X11Cleanup_UnlinkUnchecked(cs, ns) ==
    IF ns = NoNs THEN Ended(cs, "ok", NULL)
    ELSE
    LET v == GetVariable(cs.store, ns, XauthKey)
    IN  IF v # NULL
        THEN IF v \in cs.files
             THEN Ended(CredState(DeleteSection(DeleteVariable(cs.store, ns, XauthKey), ns),
                                  cs.files \ {v}, cs.nextPath), "ok", v)
             ELSE Ended(cs, "raise", NULL)
        ELSE Ended(cs, "ok", NULL)

\* x11_cleanup: cleanup(namespace)
X11Cleanup(cs, ns) ==
    IF ns = NoNs THEN Ended(cs, "ok", NULL)
    ELSE
    LET v == GetVariable(cs.store, ns, XauthKey)
    IN  IF v # NULL /\ v \in cs.files
        THEN Ended(CredState(DeleteSection(DeleteVariable(cs.store, ns, XauthKey), ns),
                             cs.files \ {v}, cs.nextPath), "ok", v)
        ELSE Ended(cs, "ok", NULL)

\* X11Interface.cleanup: x11_cleanup, then the session's section and the
\* legacy section are deleted whatever x11_cleanup did
X11InterfaceCleanup(cs, ns0, sid) ==
    LET ns == IF ns0 = NoNs THEN Ns(sid) ELSE ns0
        r == X11Cleanup(cs, ns)
    IN  Ended(CredState(DeleteSection(DeleteSection(r.cs.store, ns), LegacyNs),
                        r.cs.files, r.cs.nextPath), "ok", r.path)

X11Refresh_NewPath(cs, ns, display, xauth) ==
    IF ns = NoNs THEN Ended(cs, "ok", NULL)
    ELSE
    LET enabled == GetVariable(cs.store, ns, EnabledKey)
        v == GetVariable(cs.store, ns, XauthKey)
        p == PathOf(cs.nextPath)
    IN  IF v # NULL /\ v \in cs.files
        THEN IF display /\ xauth = "ok"
             THEN Ended(CredState(SetVariable(cs.store, ns, XauthKey, p),
                                  (cs.files \ {v}) \cup {p}, cs.nextPath + 1), "ok", p)
             ELSE Ended(cs, "raise", v)
        ELSE IF v = NULL /\ enabled = "1" THEN Ended(cs, "exit", NULL)
        ELSE Ended(cs, "ok", NULL)

X11Refresh_KeepOld(cs, ns, display, xauth) ==
    IF ns = NoNs THEN Ended(cs, "ok", NULL)
    ELSE
    LET enabled == GetVariable(cs.store, ns, EnabledKey)
        v == GetVariable(cs.store, ns, XauthKey)
        p == PathOf(cs.nextPath)
    IN  IF v # NULL /\ v \in cs.files
        THEN IF display /\ xauth = "ok"
             THEN Ended(CredState(SetVariable(cs.store, ns, XauthKey, p),
                                  cs.files \cup {p}, cs.nextPath + 1), "ok", p)
             ELSE Ended(cs, "raise", v)
        ELSE IF v = NULL /\ enabled = "1" THEN Ended(cs, "exit", NULL)
        ELSE Ended(cs, "ok", NULL)

\* x11_refresh: refresh(namespace)
X11Refresh(cs, ns, display, xauth) ==
    IF ns = NoNs THEN Ended(cs, "ok", NULL)
    ELSE
    LET enabled == GetVariable(cs.store, ns, EnabledKey)
        v == GetVariable(cs.store, ns, XauthKey)
    IN  IF v # NULL /\ v \in cs.files
        THEN \* unlink, then create_x11_tmpfile(tmpfile=v): touch, xauth nlist, nmerge
             IF display /\ xauth = "ok"
             THEN Ended(CredState(SetVariable(cs.store, ns, XauthKey, v),
                                  cs.files, cs.nextPath), "ok", v)
             ELSE Ended(cs, "raise", v)
        ELSE IF v = NULL /\ enabled = "1" THEN Ended(cs, "exit", NULL)
        ELSE Ended(cs, "ok", NULL)

------------------------------------------------------------------------------
(* The container engine, as the controller drives it.  A world w is        *)
(* [containers, sidecars, store, files, nextPath, history].                *)

World(cs, cn, sc, hs) ==
    [containers |-> cn, sidecars |-> sc, store |-> cs.store, files |-> cs.files,
     nextPath |-> cs.nextPath, history |-> hs]

Cred(w) == CredState(w.store, w.files, w.nextPath)

\* One external call: the operation, its compose files, its env files and
\* the container, sidecar or namespace it names; for the bring-up, the
\* credential file its environment names (x11_envars).
Call(op, fs, envs, target) == [op |-> op, files |-> fs, envs |-> envs, target |-> target]

\* docker compose ... up --detach --remove-orphans: on success the session's
\* container runs, named isaac-lab-<SESSION_ID> and labelled from the
\* environment (compose itself records the compose files and the env files
\* it was given); the tailscale overlay adds the sidecar
\* tailscale-<SESSION_ID>.
ComposeUp(w, c, fs, upOk) ==
    IF ~upOk THEN w
    ELSE [w EXCEPT
            !.containers = @ \cup {[name |-> <<c.session_id>>,
                                    session_id |-> c.session_id,
                                    config_files |-> fs,
                                    env_files |-> c.add_env_files,
                                    profile |-> c.add_profiles,
                                    gui |-> c.gui,
                                    access |-> c.access]},
            !.sidecars = IF \E i \in 1..Len(fs) : fs[i] = "tailscale"
                         THEN @ \cup {c.session_id} ELSE @]

DownOutcomes == {"all", "main", "none"}

\* docker compose ... down --volumes --remove-orphans on the project
\* COMPOSE_PROJECT_NAME: removes everything ("all"), only the main container
\* ("main"), or fails ("none").
ComposeDown(w, c, down) ==
    [w EXCEPT
        !.containers = IF down \in {"all", "main"}
                       THEN {k \in @ : k.session_id # c.project_name} ELSE @,
        !.sidecars = IF down = "all" THEN @ \ {c.project_name} ELSE @]

\* docker rm -f <container_name>
ForceRemove(w, name, rmOk) ==
    IF rmOk THEN [w EXCEPT !.containers = {k \in @ : k.name # name}] ELSE w

\* ContainerInterface.is_container_running
IsContainerRunning(w, c) == \E k \in w.containers : k.name = c.container_name

\* ContainerInterface.list_running_sessions: the rows of docker ps, or the
\* empty list when the query fails
ListRunningSessions(cn, qok) ==
    IF qok
    THEN {[name |-> k.name, session_id |-> k.session_id, profile |-> k.profile,
           gui |-> k.gui, access |-> k.access] : k \in cn}
    ELSE {}

------------------------------------------------------------------------------
(* ContainerInterface (docker/src/container_interface.py) *)

\* No suffix argument (None or "")
NoSuffix == <<>>

\* ContainerInterface.__init__: f"isaac-lab-{self.profile}{self.suffix}", the
\* pseudo-profile isaaclab corrected to base.  A name is written without its
\* prefix isaac-lab-, as the names of the containers are.
ContainerName(profile, suffix) ==
    (IF profile = <<"isaaclab">> THEN BASE ELSE profile) \o suffix

\* ContainerInterface.__init__ with the runner's arguments (context_dir only)
NewContainerInterface ==
    [profile |-> BASE, project_name |-> NULL, session_id |-> NULL,
     nickname |-> NULL, gui |-> NULL, access |-> NULL, rebuild |-> NULL,
     add_yamls |-> <<"compose">>, add_profiles |-> BASE, add_env_files |-> <<>>,
     container_name |-> ContainerName(BASE, NoSuffix), namespace |-> NoNs]

\* ContainerInterface.configure(yamls=[], envs)
Configure(c, envs) ==
    [c EXCEPT !.add_yamls = <<"compose">>, !.add_profiles = c.profile,
              !.add_env_files = envs]

\* environ.get("SESSION_ID") or project_name or ""
SidOrProject(c) == IF c.session_id # NULL THEN c.session_id ELSE c.project_name

SessionNs_Default(c) == Ns("default")

\* f"X11-{environ.get('SESSION_ID', 'default')}"
SessionNs(c) == Ns(IF c.session_id # NULL THEN c.session_id ELSE "default")

StartComposeFiles_TunnelForWebrtc(c, x11on) ==
    c.add_yamls
    \o (IF x11on THEN <<"x11">> ELSE <<>>)
    \o (IF ContainsTok(c.profile, "webrtc") THEN <<"tailscale">> ELSE <<>>)

\* start: add_args, the compose files of the bring-up
StartComposeFiles(c, x11on) ==
    c.add_yamls
    \o (IF x11on THEN <<"x11">> ELSE <<>>)
    \o (IF c.profile \in {<<"webrtc", "remote">>, <<"ros2", "webrtc", "remote">>}
        THEN <<"tailscale">> ELSE <<>>)

\* stop: add_args, the compose files of the teardown
StopComposeFiles(c) ==
    c.add_yamls
    \o (IF EndsWithDashTok(c.profile, "remote") THEN <<"tailscale">> ELSE <<>>)

Done(c, w, cl, outcome) == [ci |-> c, w |-> w, calls |-> cl, outcome |-> outcome]

CStart_SwallowExit(c, w, display, xauth, buildOk, upOk) ==
    LET hist == w.history \cup {SidOrProject(c)}
        build == IF c.rebuild = "1"
                 THEN <<Call("build", <<"compose">>, <<"base">>, <<>>)>> ELSE <<>>
        isX11 == c.gui = "x11"
        c1 == IF isX11 THEN [c EXCEPT !.namespace = SessionNs(c)] ELSE c
        chk == IF isX11 THEN X11Check(Cred(w), c1.namespace, display, xauth)
               ELSE Ended(Cred(w), "none", NULL)
        log1 == build \o (IF isX11 THEN <<Call("x11_check", <<>>, <<>>, c1.namespace)>>
                          ELSE <<>>)
        w1 == World(chk.cs, w.containers, w.sidecars, hist)
        x11on == isX11 /\ chk.outcome = "ok"
        add_args == StartComposeFiles(c, x11on)
        x11_envars == IF x11on THEN <<chk.path>> ELSE <<>>
    IN  Done(c1, ComposeUp(w1, c1, add_args, upOk),
             log1 \o <<Call("up", add_args, c.add_env_files, x11_envars)>>,
             "started")

CStart_CheckedBuild(c, w, display, xauth, buildOk, upOk) ==
    LET hist == w.history \cup {SidOrProject(c)}
        build == IF c.rebuild = "1"
                 THEN <<Call("build", <<"compose">>, <<"base">>, <<>>)>> ELSE <<>>
        isX11 == c.gui = "x11"
        c1 == IF isX11 THEN [c EXCEPT !.namespace = SessionNs(c)] ELSE c
        chk == IF isX11 THEN X11Check(Cred(w), c1.namespace, display, xauth)
               ELSE Ended(Cred(w), "none", NULL)
        log1 == build \o (IF isX11 THEN <<Call("x11_check", <<>>, <<>>, c1.namespace)>>
                          ELSE <<>>)
        w1 == World(chk.cs, w.containers, w.sidecars, hist)
        x11on == isX11 /\ chk.outcome = "ok"
        add_args == StartComposeFiles(c, x11on)
        x11_envars == IF x11on THEN <<chk.path>> ELSE <<>>
    IN  IF c.rebuild = "1" /\ ~buildOk
        THEN Done(c, World(Cred(w), w.containers, w.sidecars, hist), build, "raise")
        ELSE IF chk.outcome = "exit"
        THEN Done(c1, w1, log1, "exit")
        ELSE IF ~upOk
        THEN Done(c1, w1, log1 \o <<Call("up", add_args, c.add_env_files, x11_envars)>>,
                  "raise")
        ELSE Done(c1, ComposeUp(w1, c1, add_args, upOk),
                  log1 \o <<Call("up", add_args, c.add_env_files, x11_envars)>>,
                  "started")

\* ContainerInterface.start.  buildOk and upOk are the exit statuses of the
\* pre-build and of the bring-up (zero or not); both are run with
\* check=False, so neither is looked at.
CStart(c, w, display, xauth, buildOk, upOk) ==
    LET hist == w.history \cup {SidOrProject(c)}
        build == IF c.rebuild = "1"
                 THEN <<Call("build", <<"compose">>, <<"base">>, <<>>)>> ELSE <<>>
        isX11 == c.gui = "x11"
        c1 == IF isX11 THEN [c EXCEPT !.namespace = SessionNs(c)] ELSE c
        chk == IF isX11 THEN X11Check(Cred(w), c1.namespace, display, xauth)
               ELSE Ended(Cred(w), "none", NULL)
        log1 == build \o (IF isX11 THEN <<Call("x11_check", <<>>, <<>>, c1.namespace)>>
                          ELSE <<>>)
        w1 == World(chk.cs, w.containers, w.sidecars, hist)
        x11on == isX11 /\ chk.outcome = "ok"
        add_args == StartComposeFiles(c, x11on)
        x11_envars == IF x11on THEN <<chk.path>> ELSE <<>>
    IN  IF chk.outcome = "exit"
        THEN Done(c1, w1, log1, "exit")
        ELSE Done(c1, ComposeUp(w1, c1, add_args, upOk),
                  log1 \o <<Call("up", add_args, c.add_env_files, x11_envars)>>,
                  "started")

CEnter_NoCheck(c, w, display, xauth) ==
    LET isX11 == c.gui = "x11"
        c1 == IF isX11 THEN [c EXCEPT !.namespace = SessionNs(c)] ELSE c
        ref == IF isX11 THEN X11Refresh(Cred(w), c1.namespace, display, xauth)
               ELSE Ended(Cred(w), "none", NULL)
        log1 == IF isX11 THEN <<Call("x11_refresh", <<>>, <<>>, c1.namespace)>> ELSE <<>>
        w1 == World(ref.cs, w.containers, w.sidecars, w.history)
    IN  IF ref.outcome = "exit"
        THEN Done(c1, w1, log1, "exit")
        ELSE Done(c1, w1, log1 \o <<Call("exec", <<>>, <<>>, c.container_name)>>,
                  "attached")

CEnter_SwallowExit(c, w, display, xauth) ==
    IF IsContainerRunning(w, c)
    THEN
        LET isX11 == c.gui = "x11"
            c1 == IF isX11 THEN [c EXCEPT !.namespace = SessionNs(c)] ELSE c
            ref == IF isX11 THEN X11Refresh(Cred(w), c1.namespace, display, xauth)
                   ELSE Ended(Cred(w), "none", NULL)
            log1 == IF isX11 THEN <<Call("x11_refresh", <<>>, <<>>, c1.namespace)>>
                    ELSE <<>>
            w1 == World(ref.cs, w.containers, w.sidecars, w.history)
        IN  Done(c1, w1, log1 \o <<Call("exec", <<>>, <<>>, c.container_name)>>,
                 "attached")
    ELSE Done(c, w, <<>>, "notrunning")

CEnter_RefreshFatal(c, w, display, xauth) ==
    IF IsContainerRunning(w, c)
    THEN
        LET isX11 == c.gui = "x11"
            c1 == IF isX11 THEN [c EXCEPT !.namespace = SessionNs(c)] ELSE c
            ref == IF isX11 THEN X11Refresh(Cred(w), c1.namespace, display, xauth)
                   ELSE Ended(Cred(w), "none", NULL)
            log1 == IF isX11 THEN <<Call("x11_refresh", <<>>, <<>>, c1.namespace)>>
                    ELSE <<>>
            w1 == World(ref.cs, w.containers, w.sidecars, w.history)
        IN  IF ref.outcome \in {"exit", "raise"}
            THEN Done(c1, w1, log1, ref.outcome)
            ELSE Done(c1, w1, log1 \o <<Call("exec", <<>>, <<>>, c.container_name)>>,
                      "attached")
    ELSE Done(c, w, <<>>, "notrunning")

\* ContainerInterface.enter
CEnter(c, w, display, xauth) ==
    IF IsContainerRunning(w, c)
    THEN
        LET isX11 == c.gui = "x11"
            c1 == IF isX11 THEN [c EXCEPT !.namespace = SessionNs(c)] ELSE c
            ref == IF isX11 THEN X11Refresh(Cred(w), c1.namespace, display, xauth)
                   ELSE Ended(Cred(w), "none", NULL)
            log1 == IF isX11 THEN <<Call("x11_refresh", <<>>, <<>>, c1.namespace)>>
                    ELSE <<>>
            w1 == World(ref.cs, w.containers, w.sidecars, w.history)
        IN  IF ref.outcome = "exit"
            THEN Done(c1, w1, log1, "exit")
            ELSE Done(c1, w1, log1 \o <<Call("exec", <<>>, <<>>, c.container_name)>>,
                      "attached")
    ELSE Done(c, w, <<>>, "notrunning")

CStop_NoCheck(c, w, down, rmOk, clnOk) ==
    LET add_args == StopComposeFiles(c)
        w1 == ComposeDown(w, c, down)
        still == IsContainerRunning(w1, c)
        w2 == IF still THEN ForceRemove(w1, c.container_name, rmOk) ELSE w1
        sid == SidOrProject(c)
        ts == sid # NULL /\ sid \in w2.sidecars
        w3 == IF ts THEN [w2 EXCEPT !.sidecars = @ \ {sid}] ELSE w2
        isX11 == c.gui = "x11"
        c1 == IF isX11 THEN [c EXCEPT !.namespace = SessionNs(c)] ELSE c
        cln == IF isX11 /\ clnOk THEN X11Cleanup(Cred(w3), c1.namespace)
               ELSE IF isX11 THEN Ended(Cred(w3), "raise", NULL)
               ELSE Ended(Cred(w3), "none", NULL)
        w4 == World(cln.cs, w3.containers, w3.sidecars, w3.history)
        log == <<Call("down", add_args, c.add_env_files, <<>>)>>
               \o (IF still THEN <<Call("rm", <<>>, <<>>, c.container_name)>>
                   ELSE <<>>)
               \o (IF sid # NULL THEN <<Call("sidecar_ps", <<>>, <<>>, <<sid>>)>>
                   ELSE <<>>)
               \o (IF ts THEN <<Call("sidecar_rm", <<>>, <<>>, <<sid>>)>> ELSE <<>>)
               \o (IF isX11 THEN <<Call("x11_cleanup", <<>>, <<>>, c1.namespace)>>
                   ELSE <<>>)
    IN  Done(c1, w4, log, "stopped")

CStop_AlwaysRemove(c, w, down, rmOk, clnOk) ==
    IF IsContainerRunning(w, c)
    THEN
        LET add_args == StopComposeFiles(c)
            w1 == ComposeDown(w, c, down)
            still == TRUE
            w2 == IF still THEN ForceRemove(w1, c.container_name, rmOk) ELSE w1
            sid == SidOrProject(c)
            ts == sid # NULL /\ sid \in w2.sidecars
            w3 == IF ts THEN [w2 EXCEPT !.sidecars = @ \ {sid}] ELSE w2
            isX11 == c.gui = "x11"
            c1 == IF isX11 THEN [c EXCEPT !.namespace = SessionNs(c)] ELSE c
            cln == IF isX11 /\ clnOk THEN X11Cleanup(Cred(w3), c1.namespace)
                   ELSE IF isX11 THEN Ended(Cred(w3), "raise", NULL)
                   ELSE Ended(Cred(w3), "none", NULL)
            w4 == World(cln.cs, w3.containers, w3.sidecars, w3.history)
            log == <<Call("down", add_args, c.add_env_files, <<>>)>>
                   \o (IF still THEN <<Call("rm", <<>>, <<>>, c.container_name)>>
                       ELSE <<>>)
                   \o (IF sid # NULL THEN <<Call("sidecar_ps", <<>>, <<>>, <<sid>>)>>
                       ELSE <<>>)
                   \o (IF ts THEN <<Call("sidecar_rm", <<>>, <<>>, <<sid>>)>> ELSE <<>>)
                   \o (IF isX11 THEN <<Call("x11_cleanup", <<>>, <<>>, c1.namespace)>>
                       ELSE <<>>)
        IN  Done(c1, w4, log, "stopped")
    ELSE Done(c, w, <<>>, "notrunning")

CStop_SidecarUnchecked(c, w, down, rmOk, clnOk) ==
    IF IsContainerRunning(w, c)
    THEN
        LET add_args == StopComposeFiles(c)
            w1 == ComposeDown(w, c, down)
            still == IsContainerRunning(w1, c)
            w2 == IF still THEN ForceRemove(w1, c.container_name, rmOk) ELSE w1
            sid == SidOrProject(c)
            ts == sid # NULL
            w3 == IF ts THEN [w2 EXCEPT !.sidecars = @ \ {sid}] ELSE w2
            isX11 == c.gui = "x11"
            c1 == IF isX11 THEN [c EXCEPT !.namespace = SessionNs(c)] ELSE c
            cln == IF isX11 /\ clnOk THEN X11Cleanup(Cred(w3), c1.namespace)
                   ELSE IF isX11 THEN Ended(Cred(w3), "raise", NULL)
                   ELSE Ended(Cred(w3), "none", NULL)
            w4 == World(cln.cs, w3.containers, w3.sidecars, w3.history)
            log == <<Call("down", add_args, c.add_env_files, <<>>)>>
                   \o (IF still THEN <<Call("rm", <<>>, <<>>, c.container_name)>>
                       ELSE <<>>)
                   \o (IF sid # NULL THEN <<Call("sidecar_ps", <<>>, <<>>, <<sid>>)>>
                       ELSE <<>>)
                   \o (IF ts THEN <<Call("sidecar_rm", <<>>, <<>>, <<sid>>)>> ELSE <<>>)
                   \o (IF isX11 THEN <<Call("x11_cleanup", <<>>, <<>>, c1.namespace)>>
                       ELSE <<>>)
        IN  Done(c1, w4, log, "stopped")
    ELSE Done(c, w, <<>>, "notrunning")

CStop_CleanupFatal(c, w, down, rmOk, clnOk) ==
    IF IsContainerRunning(w, c)
    THEN
        LET add_args == StopComposeFiles(c)
            w1 == ComposeDown(w, c, down)
            still == IsContainerRunning(w1, c)
            w2 == IF still THEN ForceRemove(w1, c.container_name, rmOk) ELSE w1
            sid == SidOrProject(c)
            ts == sid # NULL /\ sid \in w2.sidecars
            w3 == IF ts THEN [w2 EXCEPT !.sidecars = @ \ {sid}] ELSE w2
            isX11 == c.gui = "x11"
            c1 == IF isX11 THEN [c EXCEPT !.namespace = SessionNs(c)] ELSE c
            cln == IF isX11 /\ clnOk THEN X11Cleanup(Cred(w3), c1.namespace)
                   ELSE IF isX11 THEN Ended(Cred(w3), "raise", NULL)
                   ELSE Ended(Cred(w3), "none", NULL)
            w4 == World(cln.cs, w3.containers, w3.sidecars, w3.history)
            log == <<Call("down", add_args, c.add_env_files, <<>>)>>
                   \o (IF still THEN <<Call("rm", <<>>, <<>>, c.container_name)>>
                       ELSE <<>>)
                   \o (IF sid # NULL THEN <<Call("sidecar_ps", <<>>, <<>>, <<sid>>)>>
                       ELSE <<>>)
                   \o (IF ts THEN <<Call("sidecar_rm", <<>>, <<>>, <<sid>>)>> ELSE <<>>)
                   \o (IF isX11 THEN <<Call("x11_cleanup", <<>>, <<>>, c1.namespace)>>
                       ELSE <<>>)
        IN  Done(c1, w4, log, IF cln.outcome = "raise" THEN "raise" ELSE "stopped")
    ELSE Done(c, w, <<>>, "notrunning")

\* ContainerInterface.stop
CStop(c, w, down, rmOk, clnOk) ==
    IF IsContainerRunning(w, c)
    THEN
        LET add_args == StopComposeFiles(c)
            w1 == ComposeDown(w, c, down)
            \* fallback: force-remove the container if it still runs
            still == IsContainerRunning(w1, c)
            w2 == IF still THEN ForceRemove(w1, c.container_name, rmOk) ELSE w1
            \* the sidecar is removed only if docker ps -a reports it
            sid == SidOrProject(c)
            ts == sid # NULL /\ sid \in w2.sidecars
            w3 == IF ts THEN [w2 EXCEPT !.sidecars = @ \ {sid}] ELSE w2
            \* X11 artifacts; clnOk: x11_cleanup runs through, else it raises
            \* (the unlink fails) and the guard of stop swallows the exception
            isX11 == c.gui = "x11"
            c1 == IF isX11 THEN [c EXCEPT !.namespace = SessionNs(c)] ELSE c
            cln == IF isX11 /\ clnOk THEN X11Cleanup(Cred(w3), c1.namespace)
                   ELSE IF isX11 THEN Ended(Cred(w3), "raise", NULL)
                   ELSE Ended(Cred(w3), "none", NULL)
            w4 == World(cln.cs, w3.containers, w3.sidecars, w3.history)
            log == <<Call("down", add_args, c.add_env_files, <<>>)>>
                   \o (IF still THEN <<Call("rm", <<>>, <<>>, c.container_name)>>
                       ELSE <<>>)
                   \o (IF sid # NULL THEN <<Call("sidecar_ps", <<>>, <<>>, <<sid>>)>>
                       ELSE <<>>)
                   \o (IF ts THEN <<Call("sidecar_rm", <<>>, <<>>, <<sid>>)>> ELSE <<>>)
                   \o (IF isX11 THEN <<Call("x11_cleanup", <<>>, <<>>, c1.namespace)>>
                       ELSE <<>>)
        IN  Done(c1, w4, log, "stopped")
    ELSE Done(c, w, <<>>, "notrunning")

------------------------------------------------------------------------------
(* The runner (docker/runner.py, _dispatch_cli_or_interactive) *)

NoInput == [gui |-> NULL, ros |-> FALSE, remote |-> FALSE, rebuild |-> FALSE]

NoRow == [name |-> <<>>, session_id |-> NULL, profile |-> <<>>, gui |-> NULL,
          access |-> NULL]

TheWorld ==
    [containers |-> containers, sidecars |-> sidecars, store |-> store,
     files |-> files, nextPath |-> nextPath, history |-> history]

SetWorld(w) ==
    /\ containers' = w.containers
    /\ sidecars' = w.sidecars
    /\ store' = w.store
    /\ files' = w.files
    /\ nextPath' = w.nextPath
    /\ history' = w.history

Finish(p, c, cl, outcome) ==
    /\ pc' = [pc EXCEPT ![p] = "done"]
    /\ ci' = [ci EXCEPT ![p] = c]
    /\ calls' = [calls EXCEPT ![p] = cl]
    /\ result' = [result EXCEPT ![p] = outcome]

HasLocalGuiConflict_WebrtcOnly(running) ==
    \E r \in running : EndsWithToks(r.profile, "webrtc", "local")

\* "Enforce only one local GUI (X11 or WebRTC-local) at a time": the test on
\* the rows of list_running_sessions
HasLocalGuiConflict(running) ==
    \E r \in running :
        EndsWithToks(r.profile, "webrtc", "local") \/ r.profile \in {BASE, ROS2}

StartCheck_GenerateFirst(p, gui, ros, remote, rebuild, qok) ==
    /\ pc[p] = "idle"
    /\ cmd' = [cmd EXCEPT ![p] = "start"]
    /\ clock + Cardinality({q \in Procs : pc[q] = "starting"}) < MaxSessions
    /\ inp' = [inp EXCEPT ![p] = [gui |-> gui, ros |-> ros, remote |-> remote,
                                  rebuild |-> rebuild]]
    /\ IF /\ ~remote
          /\ gui \in {"x11", "webrtc"}
          /\ HasLocalGuiConflict(ListRunningSessions(containers, qok))
       THEN /\ Finish(p, [ci[p] EXCEPT !.session_id = SidOf(clock + 1),
                                       !.nickname = "nickname"], <<>>, "conflict")
            /\ clock' = clock + 1
       ELSE /\ pc' = [pc EXCEPT ![p] = "starting"]
            /\ UNCHANGED <<ci, calls, result, clock>>
    /\ UNCHANGED <<world, row>>

\* start, up to the single-local-GUI check.  The choices (gui, ros, remote,
\* rebuild) are made; qok tells whether the docker ps query succeeds.
StartCheck(p, gui, ros, remote, rebuild, qok) ==
    /\ pc[p] = "idle"
    /\ cmd' = [cmd EXCEPT ![p] = "start"]
    /\ clock + Cardinality({q \in Procs : pc[q] = "starting"}) < MaxSessions
    /\ inp' = [inp EXCEPT ![p] = [gui |-> gui, ros |-> ros, remote |-> remote,
                                  rebuild |-> rebuild]]
    /\ IF /\ ~remote
          /\ gui \in {"x11", "webrtc"}
          /\ HasLocalGuiConflict(ListRunningSessions(containers, qok))
       THEN Finish(p, ci[p], <<>>, "conflict")
       ELSE /\ pc' = [pc EXCEPT ![p] = "starting"]
            /\ UNCHANGED <<ci, calls, result>>
    /\ UNCHANGED <<world, clock, row>>

StartUp_Recheck(p, display, xauth, buildOk, upOk) ==
    /\ pc[p] = "starting"
    /\ LET i == inp[p]
           session_id == SidOf(clock + 1)
           profile == ResolveProfile(i.gui, i.ros, i.remote)
           c0 == [ci[p] EXCEPT
                    !.profile = profile,
                    !.project_name = session_id,
                    !.session_id = session_id,
                    !.nickname = "nickname",
                    !.access = IF i.remote THEN "remote" ELSE "local",
                    !.gui = i.gui,
                    !.rebuild = IF i.rebuild THEN "1" ELSE "0"]
           c1 == Configure(c0, StartEnvs(i.gui, i.ros, i.remote))
           r == CStart(c1, TheWorld, display, xauth, buildOk, upOk)
       IN  IF /\ ~i.remote
              /\ i.gui \in {"x11", "webrtc"}
              /\ HasLocalGuiConflict(ListRunningSessions(containers, TRUE))
           THEN /\ Finish(p, ci[p], <<>>, "conflict")
                /\ UNCHANGED <<world, clock>>
           ELSE /\ clock' = clock + 1
                /\ SetWorld(r.w)
                /\ Finish(p, r.ci, r.calls, r.outcome)
    /\ UNCHANGED <<cmd, inp, row>>

\* start, from generate_session_id to the end of ci.start()
StartUp(p, display, xauth, buildOk, upOk) ==
    /\ pc[p] = "starting"
    /\ LET i == inp[p]
           session_id == SidOf(clock + 1)
           profile == ResolveProfile(i.gui, i.ros, i.remote)
           c0 == [ci[p] EXCEPT
                    !.profile = profile,
                    !.project_name = session_id,
                    !.session_id = session_id,
                    !.nickname = "nickname",
                    !.access = IF i.remote THEN "remote" ELSE "local",
                    !.gui = i.gui,
                    !.rebuild = IF i.rebuild THEN "1" ELSE "0"]
           c1 == Configure(c0, StartEnvs(i.gui, i.ros, i.remote))
           r == CStart(c1, TheWorld, display, xauth, buildOk, upOk)
       IN  /\ clock' = clock + 1
           /\ SetWorld(r.w)
           /\ Finish(p, r.ci, r.calls, r.outcome)
    /\ UNCHANGED <<cmd, inp, row>>

\* The controller re-targeted at a selected row (enter and stop)
Retarget(c, r) ==
    LET c0 == [c EXCEPT
                 !.profile = IF r.profile # <<>> THEN r.profile ELSE @,
                 !.project_name = IF r.session_id # NULL THEN r.session_id ELSE @,
                 !.session_id = IF r.session_id # NULL THEN r.session_id ELSE @,
                 !.nickname = "nickname",
                 !.gui = r.gui,
                 !.access = r.access]
    IN  [Configure(c0, ProfileEnvs(r.profile)) EXCEPT !.container_name = r.name]

\* enter, up to ci.enter(): a running session is selected, by --name, by
\* --id or in the menu
EnterSelect(p, qok) ==
    /\ pc[p] = "idle"
    /\ cmd' = [cmd EXCEPT ![p] = "enter"]
    /\ LET rows == ListRunningSessions(containers, qok)
       IN  IF rows = {}
           THEN /\ Finish(p, ci[p], <<>>, "norow")
                /\ UNCHANGED row
           ELSE \E r \in rows :
                    /\ row' = [row EXCEPT ![p] = r]
                    /\ pc' = [pc EXCEPT ![p] = "entering"]
                    /\ ci' = [ci EXCEPT ![p] = Retarget(ci[p], r)]
                    /\ UNCHANGED <<calls, result>>
    /\ UNCHANGED <<world, clock, inp>>

\* enter: ci.enter()
Enter(p, display, xauth) ==
    /\ pc[p] = "entering"
    /\ LET r == CEnter(ci[p], TheWorld, display, xauth)
       IN  /\ SetWorld(r.w)
           /\ Finish(p, r.ci, r.calls, r.outcome)
    /\ UNCHANGED <<clock, cmd, inp, row>>

\* stop, up to ci.stop(): a running session is selected and the user
\* confirms (or -y is given)
StopSelect(p, qok, confirm) ==
    /\ pc[p] = "idle"
    /\ cmd' = [cmd EXCEPT ![p] = "stop"]
    /\ LET rows == ListRunningSessions(containers, qok)
       IN  IF rows = {}
           THEN /\ Finish(p, ci[p], <<>>, "norow")
                /\ UNCHANGED row
           ELSE \E r \in rows :
                    /\ row' = [row EXCEPT ![p] = r]
                    /\ IF confirm
                       THEN /\ pc' = [pc EXCEPT ![p] = "stopping"]
                            /\ ci' = [ci EXCEPT ![p] = Retarget(ci[p], r)]
                            /\ UNCHANGED <<calls, result>>
                       ELSE Finish(p, ci[p], <<>>, "cancelled")
    /\ UNCHANGED <<world, clock, inp>>

\* stop: ci.stop()
Stop(p, down, rmOk, clnOk) ==
    /\ pc[p] = "stopping"
    /\ LET r == CStop(ci[p], TheWorld, down, rmOk, clnOk)
       IN  /\ SetWorld(r.w)
           /\ Finish(p, r.ci, r.calls, r.outcome)
    /\ UNCHANGED <<clock, cmd, inp, row>>

\* The invocation ends; the next one constructs a new ContainerInterface.
Exit(p) ==
    /\ pc[p] = "done"
    /\ pc' = [pc EXCEPT ![p] = "idle"]
    /\ cmd' = [cmd EXCEPT ![p] = NULL]
    /\ ci' = [ci EXCEPT ![p] = NewContainerInterface]
    /\ inp' = [inp EXCEPT ![p] = NoInput]
    /\ row' = [row EXCEPT ![p] = NoRow]
    /\ calls' = [calls EXCEPT ![p] = <<>>]
    /\ result' = [result EXCEPT ![p] = NULL]
    /\ UNCHANGED <<world, clock>>

\* The host removes a file under /tmp (tmp cleaner, reboot): the case
\* configure_x11 tests with Path(tmp_xauth_value).exists().
HostRemovesTmpFile(f) ==
    /\ f \in files
    /\ files' = files \ {f}
    /\ UNCHANGED <<containers, sidecars, store, nextPath, history, clock,
                   pc, cmd, ci, inp, row, calls, result>>

Init ==
    /\ containers = {}
    /\ sidecars = {}
    /\ store = <<>>
    /\ files = {}
    /\ nextPath = 1
    /\ history = {}
    /\ clock = 0
    /\ pc = [p \in Procs |-> "idle"]
    /\ cmd = [p \in Procs |-> NULL]
    /\ ci = [p \in Procs |-> NewContainerInterface]
    /\ inp = [p \in Procs |-> NoInput]
    /\ row = [p \in Procs |-> NoRow]
    /\ calls = [p \in Procs |-> <<>>]
    /\ result = [p \in Procs |-> NULL]

\* A finished invocation exits before anything else happens: what it did is
\* on record in the state right after its last step.
NoneDone == \A q \in Procs : pc[q] # "done"

\* Invocation p may take a step: no finished invocation waits to exit and,
\* when invocations run one after the other (seq), no other one is under way.
Ready(p, seq) ==
    /\ NoneDone
    /\ seq => \A q \in Procs \ {p} : pc[q] = "idle"

\* One step of invocation p; Q is the set of outcomes the docker ps query
\* may have (TRUE: it succeeds).
Step(p, Q, seq) ==
    \/ /\ Ready(p, seq)
       /\ \E gui \in GuiModes, ros \in BOOLEAN, remote \in BOOLEAN,
             rebuild \in BOOLEAN, qok \in Q :
               StartCheck(p, gui, ros, remote, rebuild, qok)
    \/ /\ Ready(p, seq)
       /\ \E display \in BOOLEAN, xauth \in XauthStates, buildOk \in BOOLEAN,
             upOk \in BOOLEAN :
               StartUp(p, display, xauth, buildOk, upOk)
    \/ /\ Ready(p, seq)
       /\ \E qok \in Q : EnterSelect(p, qok)
    \/ /\ Ready(p, seq)
       /\ \E display \in BOOLEAN, xauth \in XauthStates : Enter(p, display, xauth)
    \/ /\ Ready(p, seq)
       /\ \E qok \in Q, confirm \in BOOLEAN : StopSelect(p, qok, confirm)
    \/ /\ Ready(p, seq)
       /\ \E down \in DownOutcomes, rmOk \in BOOLEAN, clnOk \in BOOLEAN :
               Stop(p, down, rmOk, clnOk)
    \/ Exit(p)

Env == NoneDone /\ \E f \in files : HostRemovesTmpFile(f)

\* Invocations overlap freely; every registry query succeeds.
Next == (\E p \in Procs : Step(p, {TRUE}, FALSE)) \/ Env

Spec == Init /\ [][Next]_vars

\* Invocations run one after the other; every registry query succeeds.
NextSequential == (\E p \in Procs : Step(p, {TRUE}, TRUE)) \/ Env

SpecSequential == Init /\ [][NextSequential]_vars

\* Invocations overlap freely; the registry query may fail.
NextUnreliable == (\E p \in Procs : Step(p, BOOLEAN, FALSE)) \/ Env

SpecUnreliable == Init /\ [][NextUnreliable]_vars

\* Invocations run one after the other; the registry query may fail.
NextSequentialUnreliable == (\E p \in Procs : Step(p, BOOLEAN, TRUE)) \/ Env

SpecSequentialUnreliable == Init /\ [][NextSequentialUnreliable]_vars

------------------------------------------------------------------------------
(* The credential functions of docker/src/gui/x11.py called directly, in    *)
(* any order, on a statefile whose namespace the caller has set: the        *)
(* contract of ensure (configure_x11), refresh (x11_refresh) and cleanup    *)
(* (x11_cleanup).  calls[p] holds the last call of caller p with what it     *)
(* returned.                                                                *)

\* Number of files the model lets mktemp create.
MaxPaths == 3

\* The namespaces callers set before ensure: f"X11-{session_id}"
SessionNamespaces == {Ns(SidOf(n)) : n \in 1..2}

\* The namespaces refresh and cleanup are called with: a session's, or None
CallNamespaces == SessionNamespaces \cup {NoNs}

\* The state file the first call finds: empty, or one in which the
\* forwarding flag X11_FORWARDING_ENABLED is recorded, in the legacy section
\* or in a session's section.
InitialStores ==
    {<<>>}
    \cup {SetVariable(<<>>, ns, EnabledKey, e) :
             ns \in {LegacyNs, Ns(SidOf(1))}, e \in {"0", "1"}}

\* The caller of the credential functions: the calls of one caller at a
\* time are the sequences the contract speaks of.
Callers == {1}

\* The record of one direct call and of what it returned
Returned(op, ns, r) == [op |-> op, target |-> ns, outcome |-> r.outcome, path |-> r.path]

SetCred(cs) ==
    /\ store' = cs.store
    /\ files' = cs.files
    /\ nextPath' = cs.nextPath

\* configure_x11(statefile) with statefile.namespace = ns.  Without DISPLAY
\* create_x11_tmpfile raises at os.environ["DISPLAY"], after mktemp, as it
\* does when xauth fails.
EnsureCall(p, ns, xauth) ==
    /\ nextPath <= MaxPaths
    /\ LET r == ConfigureX11(Cred(TheWorld), ns, xauth)
       IN  /\ SetCred(r.cs)
           /\ calls' = [calls EXCEPT ![p] = <<Returned("configure_x11", ns, r)>>]
    /\ UNCHANGED <<containers, sidecars, history, clock, pc, cmd, ci, inp, row, result>>

\* x11_refresh(statefile) with statefile.namespace = ns
RefreshCall(p, ns, display, xauth) ==
    /\ LET r == X11Refresh(Cred(TheWorld), ns, display, xauth)
       IN  /\ SetCred(r.cs)
           /\ calls' = [calls EXCEPT ![p] = <<Returned("x11_refresh", ns, r)>>]
    /\ UNCHANGED <<containers, sidecars, history, clock, pc, cmd, ci, inp, row, result>>

\* x11_cleanup(statefile) with statefile.namespace = ns
CleanupCall(p, ns) ==
    /\ LET r == X11Cleanup(Cred(TheWorld), ns)
       IN  /\ SetCred(r.cs)
           /\ calls' = [calls EXCEPT ![p] = <<Returned("x11_cleanup", ns, r)>>]
    /\ UNCHANGED <<containers, sidecars, history, clock, pc, cmd, ci, inp, row, result>>

InitCredential ==
    /\ containers = {}
    /\ sidecars = {}
    /\ store \in InitialStores
    /\ files = {}
    /\ nextPath = 1
    /\ history = {}
    /\ clock = 0
    /\ pc = [p \in Procs |-> "idle"]
    /\ cmd = [p \in Procs |-> NULL]
    /\ ci = [p \in Procs |-> NewContainerInterface]
    /\ inp = [p \in Procs |-> NoInput]
    /\ row = [p \in Procs |-> NoRow]
    /\ calls = [p \in Procs |-> <<>>]
    /\ result = [p \in Procs |-> NULL]

NextCredential ==
    \/ \E p \in Callers, ns \in SessionNamespaces, xauth \in XauthStates :
           EnsureCall(p, ns, xauth)
    \/ \E p \in Callers, ns \in CallNamespaces, display \in BOOLEAN,
          xauth \in XauthStates : RefreshCall(p, ns, display, xauth)
    \/ \E p \in Callers, ns \in CallNamespaces : CleanupCall(p, ns)
    \/ \E f \in files : HostRemovesTmpFile(f)

SpecCredential == InitCredential /\ [][NextCredential]_vars

\* Invocations run one after the other, on a state file in which the
\* forwarding flag may be recorded.
SpecRecordedFlag == InitCredential /\ [][NextSequential]_vars

------------------------------------------------------------------------------
(* The env-file parser (ContainerInterface._parse_dot_vars).  A string is   *)
(* the sequence of its characters, a file the sequence of its lines.  Here  *)
(* ci[p] is the controller as the parser sees it: add_env_files holds the   *)
(* files in order (their lines, in place of their paths), dot_vars the      *)
(* mapping under construction, file and line the position of the two loops. *)

\* Number of env files handed to the parser, and of lines in a file.
MaxFiles == 2
MaxLines == 2

Space == " "
QuoteChars == {"\"", "'"}

\* str.lstrip(), str.rstrip(), str.strip()
RECURSIVE LStrip(_)
LStrip(str) == IF str # <<>> /\ Head(str) = Space THEN LStrip(Tail(str)) ELSE str

RECURSIVE RStrip(_)
RStrip(str) ==
    IF str # <<>> /\ str[Len(str)] = Space
    THEN RStrip(SubSeq(str, 1, Len(str) - 1)) ELSE str

Strip(str) == LStrip(RStrip(str))

\* str.lower(), on the letters that occur in the lines
LowerChar(ch) ==
    CASE ch = "E" -> "e" [] ch = "X" -> "x" [] ch = "P" -> "p"
      [] ch = "O" -> "o" [] ch = "R" -> "r" [] ch = "T" -> "t"
      [] ch = "A" -> "a" [] ch = "B" -> "b"
      [] OTHER -> ch

Lower(str) == [i \in DOMAIN str |-> LowerChar(str[i])]

\* str.startswith(prefix)
StartsWith(str, prefix) ==
    Len(str) >= Len(prefix) /\ SubSeq(str, 1, Len(prefix)) = prefix

\* "export "
ExportPrefix == <<"e", "x", "p", "o", "r", "t", " ">>

\* The index of the first "=" of a string, 0 if there is none
FirstEq(str) ==
    IF \E i \in DOMAIN str : str[i] = "="
    THEN CHOOSE i \in DOMAIN str :
             str[i] = "=" /\ \A j \in 1..(i - 1) : str[j] # "="
    ELSE 0

NormalizeValue_AnyQuotes(val) ==
    LET v == Strip(val)
    IN  IF Len(v) >= 2 /\ v[1] \in QuoteChars /\ v[Len(v)] \in QuoteChars
        THEN SubSeq(v, 2, Len(v) - 1)
        ELSE v

\* _normalize_value
NormalizeValue(val) ==
    LET v == Strip(val)
    IN  IF Len(v) >= 2 /\ v[1] = v[Len(v)] /\ v[1] \in QuoteChars
        THEN SubSeq(v, 2, Len(v) - 1)
        ELSE v

\* line after "if line.lower().startswith('export '): line = line[7:].lstrip()"
StripExport(line) ==
    IF StartsWith(Lower(line), ExportPrefix)
    THEN LStrip(SubSeq(line, 8, Len(line)))
    ELSE line

\* dot_vars[key] = val
Assign(dv, key, val) ==
    [k \in DOMAIN dv \cup {key} |-> IF k = key THEN val ELSE dv[k]]

\* What one line does: "skip" (blank, comment, or no "=") or "assign"
LineEffect(raw) ==
    LET line == Strip(raw)
        body == StripExport(line)
        eq == FirstEq(body)
    IN  IF line = <<>> \/ Head(line) = "#" THEN [kind |-> "skip"]
        ELSE IF eq = 0 THEN [kind |-> "skip"]
        ELSE [kind |-> "assign",
              key |-> Strip(SubSeq(body, 1, eq - 1)),
              val |-> NormalizeValue(SubSeq(body, eq + 1, Len(body)))]

\* What the loop body leaves: the mapping, and whether it raised
Parsed(dv, raised) == [dot_vars |-> dv, raised |-> raised]

ParseLine_KeepFirst(dv, raw) ==
    LET e == LineEffect(raw)
    IN  IF e.kind = "assign" /\ e.key \notin DOMAIN dv
        THEN Parsed(Assign(dv, e.key, e.val), FALSE) ELSE Parsed(dv, FALSE)

ParseLine_RaiseOnMalformed(dv, raw) ==
    LET e == LineEffect(raw)
        line == Strip(raw)
    IN  IF e.kind = "assign" THEN Parsed(Assign(dv, e.key, e.val), FALSE)
        ELSE Parsed(dv, line # <<>> /\ Head(line) # "#")

\* The body of the loop over the lines of a file
ParseLine(dv, raw) ==
    LET e == LineEffect(raw)
    IN  IF e.kind = "assign" THEN Parsed(Assign(dv, e.key, e.val), FALSE)
        ELSE Parsed(dv, FALSE)

\* The lines the files are made of
SampleLines ==
    {<<"A", "=", "1">>,
     <<"A", "=", "2">>,
     <<"B", "=", "1">>,
     <<" ", "A", " ", "=", " ", "\"", "3", "\"", " ">>,
     <<"E", "X", "P", "O", "R", "T", " ", " ", "B", "=", "'", "2", "'">>,
     <<"#", "A", "=", "9">>,
     <<" ">>,
     <<"A">>,
     <<"e", "x", "p", "o", "r", "t", " ", "A">>}

\* The sequences over S of length at most n
RECURSIVE SeqsUpTo(_, _)
SeqsUpTo(S, n) ==
    IF n = 0 THEN {<<>>}
    ELSE LET shorter == SeqsUpTo(S, n - 1)
         IN  shorter \cup {Append(sq, x) : sq \in shorter, x \in S}

EnvFiles == SeqsUpTo(SampleLines, MaxLines)

EnvFileLists == SeqsUpTo(EnvFiles, MaxFiles)

\* The controller when _parse_dot_vars starts: self.dot_vars = {}
ParserInterface(fs) == [add_env_files |-> fs, dot_vars |-> <<>>, file |-> 1, line |-> 1]

\* One iteration of "for raw in f", or the step to the next file at the end
\* of a file
ParseStep(p) ==
    /\ pc[p] = "parsing"
    /\ ci[p].file <= Len(ci[p].add_env_files)
    /\ LET f == ci[p].add_env_files[ci[p].file]
       IN  IF ci[p].line <= Len(f)
           THEN LET r == ParseLine(ci[p].dot_vars, f[ci[p].line])
                IN  IF r.raised
                    THEN /\ pc' = [pc EXCEPT ![p] = "done"]
                         /\ result' = [result EXCEPT ![p] = "raise"]
                         /\ UNCHANGED ci
                    ELSE /\ ci' = [ci EXCEPT ![p].dot_vars = r.dot_vars,
                                             ![p].line = @ + 1]
                         /\ UNCHANGED <<pc, result>>
           ELSE /\ ci' = [ci EXCEPT ![p].file = @ + 1, ![p].line = 1]
                /\ UNCHANGED <<pc, result>>
    /\ UNCHANGED <<world, clock, cmd, inp, row, calls>>

\* _parse_dot_vars returns
ParseEnd(p) ==
    /\ pc[p] = "parsing"
    /\ ci[p].file > Len(ci[p].add_env_files)
    /\ pc' = [pc EXCEPT ![p] = "done"]
    /\ result' = [result EXCEPT ![p] = "parsed"]
    /\ UNCHANGED <<world, clock, cmd, ci, inp, row, calls>>

InitEnv ==
    /\ containers = {}
    /\ sidecars = {}
    /\ store = <<>>
    /\ files = {}
    /\ nextPath = 1
    /\ history = {}
    /\ clock = 0
    /\ pc = [p \in Procs |-> IF p \in Callers THEN "parsing" ELSE "idle"]
    /\ cmd = [p \in Procs |-> NULL]
    /\ \E fs \in EnvFileLists :
           ci = [p \in Procs |-> IF p \in Callers THEN ParserInterface(fs)
                                 ELSE NewContainerInterface]
    /\ inp = [p \in Procs |-> NoInput]
    /\ row = [p \in Procs |-> NoRow]
    /\ calls = [p \in Procs |-> <<>>]
    /\ result = [p \in Procs |-> NULL]

NextEnv ==
    \/ \E p \in Callers : ParseStep(p)
    \/ \E p \in Callers : ParseEnd(p)

SpecEnv == InitEnv /\ [][NextEnv]_vars

------------------------------------------------------------------------------
(* _normalize_value applied to a value, and again to what it returned.  Here *)
(* ci[p] holds the value, the two results and the number of applications.    *)

\* Length of the values handed to _normalize_value.
MaxValueLen == 5

\* The characters of the values: the two quote characters, a letter, a blank
ValueChars == QuoteChars \cup {"a", Space}

Values == SeqsUpTo(ValueChars, MaxValueLen)

NormalizerInput(val) == [val |-> val, first |-> <<>>, second |-> <<>>, applied |-> 0]

\* val = _normalize_value(val)
NormalizeOnce(p) ==
    /\ pc[p] = "normalizing"
    /\ ci[p].applied = 0
    /\ ci' = [ci EXCEPT ![p].first = NormalizeValue(ci[p].val), ![p].applied = 1]
    /\ UNCHANGED <<world, clock, pc, cmd, inp, row, calls, result>>

\* _normalize_value applied to its own result
NormalizeAgain(p) ==
    /\ pc[p] = "normalizing"
    /\ ci[p].applied = 1
    /\ ci' = [ci EXCEPT ![p].second = NormalizeValue(ci[p].first), ![p].applied = 2]
    /\ UNCHANGED <<world, clock, pc, cmd, inp, row, calls, result>>

InitNormalize ==
    /\ containers = {}
    /\ sidecars = {}
    /\ store = <<>>
    /\ files = {}
    /\ nextPath = 1
    /\ history = {}
    /\ clock = 0
    /\ pc = [p \in Procs |-> IF p \in Callers THEN "normalizing" ELSE "idle"]
    /\ cmd = [p \in Procs |-> NULL]
    /\ \E val \in Values :
           ci = [p \in Procs |-> IF p \in Callers THEN NormalizerInput(val)
                                 ELSE NewContainerInterface]
    /\ inp = [p \in Procs |-> NoInput]
    /\ row = [p \in Procs |-> NoRow]
    /\ calls = [p \in Procs |-> <<>>]
    /\ result = [p \in Procs |-> NULL]

NextNormalize ==
    \/ \E p \in Callers : NormalizeOnce(p)
    \/ \E p \in Callers : NormalizeAgain(p)

SpecNormalize == InitNormalize /\ [][NextNormalize]_vars

------------------------------------------------------------------------------
(* The list command: ContainerInterface.list_running_sessions on the text   *)
(* docker ps prints, then the filters of the runner.  A line of the output   *)
(* is the sequence of its tab-separated fields: id, name, session_id,        *)
(* nickname, profile, gui, access.  Names and profiles are token sequences   *)
(* as above, nicknames character sequences, the other fields strings.  Here  *)
(* ci[p] holds the output (out), whether the query succeeded (qok), the      *)
(* records (rows), the filters and the records printed (shown).              *)

\* Number of lines in the output of docker ps.
MaxRows == 2

\* The positions of the fields that are sequences (name, nickname, profile)
SeqFields == {2, 4, 5}

\* An empty field at position i
EmptyAt(i, field) == IF i \in SeqFields THEN field = <<>> ELSE field = ""

\* str.strip() on a line's end: tabs are whitespace, so trailing empty
\* fields go
RECURSIVE DropTrailingEmpty(_)
DropTrailingEmpty(parts) ==
    IF parts # <<>> /\ EmptyAt(Len(parts), parts[Len(parts)])
    THEN DropTrailingEmpty(SubSeq(parts, 1, Len(parts) - 1))
    ELSE parts

\* out.strip().splitlines(): the last line loses its trailing empty fields
\* (the first field of a line, the container id, is never empty)
StripOutput(lines) ==
    IF lines = <<>> THEN <<>>
    ELSE [lines EXCEPT ![Len(lines)] = DropTrailingEmpty(@)]

\* "webrtc" if "webrtc" in profile else "none"
InferGui(profile) == IF ContainsTok(profile, "webrtc") THEN "webrtc" ELSE "none"

\* "remote" if profile.endswith("-remote") else ("local" if "webrtc" in
\* profile else "unknown")
InferAccess(profile) ==
    IF EndsWithDashTok(profile, "remote") THEN "remote"
    ELSE IF ContainsTok(profile, "webrtc") THEN "local"
    ELSE "unknown"

SessionRecord(parts, gui, access) ==
    [id |-> parts[1], name |-> parts[2], session_id |-> parts[3],
     nickname |-> parts[4], profile |-> parts[5],
     gui |-> IF gui # "" THEN gui ELSE InferGui(parts[5]),
     access |-> IF access # "" THEN access ELSE InferAccess(parts[5])]

RowRecords_ShiftedLabels(parts) ==
    IF Len(parts) >= 7 THEN <<SessionRecord(parts, parts[7], parts[6])>>
    ELSE IF Len(parts) >= 5
    THEN <<SessionRecord(parts, InferGui(parts[5]), InferAccess(parts[5]))>>
    ELSE <<>>

RowRecords_LegacyLocal(parts) ==
    IF Len(parts) >= 7 THEN <<SessionRecord(parts, parts[6], parts[7])>>
    ELSE IF Len(parts) >= 5
    THEN <<SessionRecord(parts, InferGui(parts[5]), "local")>>
    ELSE <<>>

\* The body of "for line in out.splitlines()": the records one line yields
RowRecords(parts) ==
    IF Len(parts) >= 7 THEN <<SessionRecord(parts, parts[6], parts[7])>>
    ELSE IF Len(parts) >= 5
    THEN <<SessionRecord(parts, InferGui(parts[5]), InferAccess(parts[5]))>>
    ELSE <<>>

RECURSIVE ParseRows(_)
ParseRows(lines) ==
    IF lines = <<>> THEN <<>>
    ELSE RowRecords(Head(lines)) \o ParseRows(Tail(lines))

\* What list_running_sessions leaves: the rows, and whether it raised
Listed(rows, raised) == [rows |-> rows, raised |-> raised]

ListRunning_Propagate(out, qok) ==
    IF qok THEN Listed(ParseRows(StripOutput(out)), FALSE) ELSE Listed(<<>>, TRUE)

\* list_running_sessions: the records, or [] when the query fails
ListRunning(out, qok) ==
    IF qok THEN Listed(ParseRows(StripOutput(out)), FALSE) ELSE Listed(<<>>, FALSE)

\* str.lower() on a label value
LowerWord(w) ==
    CASE w = "X11" -> "x11"
      [] w = "WebRTC" -> "webrtc"
      [] w = "Local" -> "local"
      [] w = "Remote" -> "remote"
      [] OTHER -> w

\* sub in str
Contains(sub, str) ==
    \E i \in 0..(Len(str) - Len(sub)) : SubSeq(str, i + 1, i + Len(sub)) = sub

MatchRow_CaseSensitive(r, gui, access, nickname) ==
    /\ gui # "all" => r.gui = gui
    /\ access # "all" => r.access = access
    /\ Lower(nickname) # <<>> => Contains(Lower(nickname), r.nickname)

\* match(row) of the list command and of apply_filters
MatchRow(r, gui, access, nickname) ==
    /\ gui # "all" => LowerWord(r.gui) = gui
    /\ access # "all" => LowerWord(r.access) = access
    /\ Lower(nickname) # <<>> => Contains(Lower(nickname), Lower(r.nickname))

\* [r for r in rows if match(r)]
RECURSIVE FilterRows(_, _, _, _)
FilterRows(rows, gui, access, nickname) ==
    IF rows = <<>> THEN <<>>
    ELSE (IF MatchRow(Head(rows), gui, access, nickname) THEN <<Head(rows)>> ELSE <<>>)
         \o FilterRows(Tail(rows), gui, access, nickname)

\* --gui, --access, --nickname of the list command
GuiFilters == {"all", "webrtc", "x11", "none"}
AccessFilters == {"all", "local", "remote"}
NicknameFilters == {<<>>, <<"a">>, <<"A", "B">>, <<"b", "a">>}

\* Lines docker ps may print
SampleRows ==
    {<<"c1", <<"1">>, "1", <<"A", "b">>, <<"ros2", "webrtc", "remote">>, "webrtc", "remote">>,
     <<"c2", <<"2">>, "2", <<"b", "a">>, <<"base">>, "X11", "Local">>,
     <<"c3", <<"3">>, "3", <<>>, <<"webrtc", "local">>, "", "">>,
     <<"c4", <<"4">>, "4", <<"a">>, <<"webrtc", "remote">>>>,
     <<"c5", <<"5">>, "5", <<"B">>, <<"base">>>>,
     <<"c6", <<"6">>, "6", <<"a", "b">>, <<"ros2", "webrtc", "local">>>>,
     <<"c7", <<"7">>, "7", <<"a">>, <<"base">>, "x11">>,
     <<"c8", <<"8">>, "8", <<"b">>, <<"ros2">>, "none", "remote", "extra">>,
     <<"c9", <<"9">>, "", <<>>>>,
     <<"c0", <<"0">>>>}

Outputs == SeqsUpTo(SampleRows, MaxRows)

NoFilter == [gui |-> "all", access |-> "all", nickname |-> <<>>]

ListInterface(out, qok) ==
    [out |-> out, qok |-> qok, rows |-> <<>>, filter |-> NoFilter, shown |-> <<>>]

\* rows = ci.list_running_sessions(); "No running sessions found." if empty
ListCall(p) ==
    /\ pc[p] = "listing"
    /\ LET r == ListRunning(ci[p].out, ci[p].qok)
       IN  IF r.raised
           THEN /\ pc' = [pc EXCEPT ![p] = "done"]
                /\ result' = [result EXCEPT ![p] = "raise"]
                /\ UNCHANGED ci
           ELSE /\ ci' = [ci EXCEPT ![p].rows = r.rows]
                /\ pc' = [pc EXCEPT ![p] = IF r.rows = <<>> THEN "done" ELSE "filtering"]
                /\ result' = [result EXCEPT ![p] = IF r.rows = <<>> THEN "norow" ELSE NULL]
    /\ UNCHANGED <<world, clock, cmd, inp, row, calls>>

\* rows = [r for r in rows if match(r)], then the rows are printed
FilterCall(p, gui, access, nickname) ==
    /\ pc[p] = "filtering"
    /\ ci' = [ci EXCEPT ![p].filter = [gui |-> gui, access |-> access,
                                        nickname |-> nickname],
                        ![p].shown = FilterRows(ci[p].rows, gui, access, nickname)]
    /\ pc' = [pc EXCEPT ![p] = "done"]
    /\ result' = [result EXCEPT ![p] = "listed"]
    /\ UNCHANGED <<world, clock, cmd, inp, row, calls>>

InitRegistry ==
    /\ containers = {}
    /\ sidecars = {}
    /\ store = <<>>
    /\ files = {}
    /\ nextPath = 1
    /\ history = {}
    /\ clock = 0
    /\ pc = [p \in Procs |-> IF p \in Callers THEN "listing" ELSE "idle"]
    /\ cmd = [p \in Procs |-> IF p \in Callers THEN "list" ELSE NULL]
    /\ \E out \in Outputs, qok \in BOOLEAN :
           ci = [p \in Procs |-> IF p \in Callers THEN ListInterface(out, qok)
                                 ELSE NewContainerInterface]
    /\ inp = [p \in Procs |-> NoInput]
    /\ row = [p \in Procs |-> NoRow]
    /\ calls = [p \in Procs |-> <<>>]
    /\ result = [p \in Procs |-> NULL]

NextRegistry ==
    \/ \E p \in Callers : ListCall(p)
    \/ \E p \in Callers, gui \in GuiFilters, access \in AccessFilters,
          nickname \in NicknameFilters : FilterCall(p, gui, access, nickname)

SpecRegistry == InitRegistry /\ [][NextRegistry]_vars

------------------------------------------------------------------------------
(* generate_session_id, called repeatedly while the wall clock advances or   *)
(* stands still.  Here clock is time.time_ns() and ci[p].ids the identifiers *)
(* returned so far, oldest first.                                            *)

\* Number of identifiers generated, and of clock readings.
MaxIds == 3
MaxTicks == 2

MAX_RAND == 99999

\* Values random.randrange(0, MAX_RAND) may return
RandDraws == {0, 7, MAX_RAND - 1}

\* f"{n:05d}"
Pad5(n) ==
    IF n < 10 THEN "0000" \o ToString(n)
    ELSE IF n < 100 THEN "000" \o ToString(n)
    ELSE IF n < 1000 THEN "00" \o ToString(n)
    ELSE IF n < 10000 THEN "0" \o ToString(n)
    ELSE ToString(n)

\* f"{time.time_ns()}-{random.randrange(0, MAX_RAND):05d}"
SessionId(time_ns, rand) == ToString(time_ns) \o "-" \o Pad5(rand)

IdInterface == [ids |-> <<>>]

GenerateSessionId(p) ==
    /\ pc[p] = "generating"
    /\ Len(ci[p].ids) < MaxIds
    /\ \E rand \in RandDraws :
           ci' = [ci EXCEPT ![p].ids = Append(@, SessionId(clock, rand))]
    /\ UNCHANGED <<world, clock, pc, cmd, inp, row, calls, result>>

\* The wall clock advances between two calls
Tick ==
    /\ clock < MaxTicks
    /\ clock' = clock + 1
    /\ UNCHANGED <<world, pc, cmd, ci, inp, row, calls, result>>

InitSessionId ==
    /\ containers = {}
    /\ sidecars = {}
    /\ store = <<>>
    /\ files = {}
    /\ nextPath = 1
    /\ history = {}
    /\ clock = 0
    /\ pc = [p \in Procs |-> IF p \in Callers THEN "generating" ELSE "idle"]
    /\ cmd = [p \in Procs |-> NULL]
    /\ ci = [p \in Procs |-> IF p \in Callers THEN IdInterface ELSE NewContainerInterface]
    /\ inp = [p \in Procs |-> NoInput]
    /\ row = [p \in Procs |-> NoRow]
    /\ calls = [p \in Procs |-> <<>>]
    /\ result = [p \in Procs |-> NULL]

NextSessionId ==
    \/ \E p \in Callers : GenerateSessionId(p)
    \/ Tick

SpecSessionId == InitSessionId /\ [][NextSessionId]_vars

------------------------------------------------------------------------------
(* generate_nickname on pools the caller supplies.  A pool is absent (None), *)
(* a list, or an iterable that is not a container (a generator), which is    *)
(* true in a condition even when it yields nothing.  Here ci[p] holds the    *)
(* arguments and the nickname returned (out).                                *)

\* Number of words in a supplied pool.
MaxPool == 2

\* Words of the built-in pools
DESCRIPTORS == <<"agile", "brave">>
ANIMALS == <<"rhino", "zebra">>

\* Words a caller supplies
Words == {"x", "y"}

Pools ==
    {[kind |-> "none", items |-> <<>>]}
    \cup {[kind |-> k, items |-> ws] : k \in {"list", "iter"}, ws \in SeqsUpTo(Words, MaxPool)}

Separators == {" ", "-"}

\* bool(pool)
Truthy(pool) == pool.kind = "iter" \/ (pool.kind = "list" /\ pool.items # <<>>)

\* tuple(pool or default)
PoolOrDefault(pool, default) == IF Truthy(pool) THEN pool.items ELSE default

NicknameInterface(descriptors, animals, sep) ==
    [descriptors |-> descriptors, animals |-> animals, sep |-> sep, out |-> NULL]

GenerateNickname(p) ==
    /\ pc[p] = "naming"
    /\ LET first_pool == PoolOrDefault(ci[p].descriptors, DESCRIPTORS)
           second_pool == PoolOrDefault(ci[p].animals, ANIMALS)
       IN  IF first_pool = <<>> \/ second_pool = <<>>
           THEN /\ result' = [result EXCEPT ![p] = "ValueError"]
                /\ UNCHANGED ci
           ELSE /\ \E i \in DOMAIN first_pool, j \in DOMAIN second_pool :
                       ci' = [ci EXCEPT ![p].out =
                                  first_pool[i] \o ci[p].sep \o second_pool[j]]
                /\ result' = [result EXCEPT ![p] = "named"]
    /\ pc' = [pc EXCEPT ![p] = "done"]
    /\ UNCHANGED <<world, clock, cmd, inp, row, calls>>

InitNickname ==
    /\ containers = {}
    /\ sidecars = {}
    /\ store = <<>>
    /\ files = {}
    /\ nextPath = 1
    /\ history = {}
    /\ clock = 0
    /\ pc = [p \in Procs |-> IF p \in Callers THEN "naming" ELSE "idle"]
    /\ cmd = [p \in Procs |-> NULL]
    /\ \E descriptors \in Pools, animals \in Pools, sep \in Separators :
           ci = [p \in Procs |-> IF p \in Callers
                                 THEN NicknameInterface(descriptors, animals, sep)
                                 ELSE NewContainerInterface]
    /\ inp = [p \in Procs |-> NoInput]
    /\ row = [p \in Procs |-> NoRow]
    /\ calls = [p \in Procs |-> <<>>]
    /\ result = [p \in Procs |-> NULL]

NextNickname == \E p \in Callers : GenerateNickname(p)

SpecNickname == InitNickname /\ [][NextNickname]_vars

------------------------------------------------------------------------------
(* Properties *)

\* The operations of the calls in a log
CallOps(cl) == {cl[i].op : i \in DOMAIN cl}

\* The elements of a sequence
Elems(sq) == {sq[i] : i \in DOMAIN sq}

\* The running sessions that have a GUI and local access
LocalGuiSessions ==
    {k \in containers : k.gui \in {"x11", "webrtc"} /\ k.access = "local"}

\* C1: when invocations run one after the other and every start scans a
\* truthful registry snapshot, at most one running session has a GUI (x11 or
\* webrtc) with local access.
C1_AtMostOneLocalGui == Cardinality(LocalGuiSessions) <= 1

\* C1 witness: a local GUI start has been rejected while one local GUI
\* session runs.
C1_Witness ==
    \E p \in Procs :
        /\ result[p] = "conflict"
        /\ Cardinality(LocalGuiSessions) = 1

\* A start for a GUI session with local access
IsLocalGuiStart(i) == ~i.remote /\ i.gui \in {"x11", "webrtc"}

\* C2: the single-local-GUI check and the bring-up are not atomic.  A local
\* GUI start passes the check only on a snapshot without a conflicting
\* session, and once it has passed it is never rejected, whatever has come
\* up in between; so two overlapping local GUI starts both bring their
\* session up (the witness).
C2_CheckThenActNotAtomic ==
    [][\A p \in Procs :
          /\ (pc[p] = "idle" /\ pc'[p] = "starting" /\ IsLocalGuiStart(inp'[p])) =>
                 ~HasLocalGuiConflict(ListRunningSessions(containers, TRUE))
          /\ pc[p] = "starting" => result'[p] # "conflict"]_vars

\* C2 witness: a local GUI start has just brought its session up while
\* another local GUI session runs, every registry snapshot having been
\* truthful.
C2_Witness ==
    \E p \in Procs :
        /\ cmd[p] = "start" /\ result[p] = "started"
        /\ IsLocalGuiStart(inp[p])
        /\ \E k1, k2 \in LocalGuiSessions :
               /\ k1.session_id = ci[p].session_id
               /\ k2.session_id # ci[p].session_id

\* C3: a start rejected for the single-local-GUI conflict has no side
\* effect: no session id or nickname is generated, the controller is as
\* constructed, no history file or credential is created and no engine call
\* is made.
C3_RejectedStartChangesNothing ==
    [][\A p \in Procs :
          (result[p] # "conflict" /\ result'[p] = "conflict") =>
              /\ UNCHANGED <<world, clock>>
              /\ ci'[p] = ci[p]
              /\ ci'[p] = NewContainerInterface
              /\ calls'[p] = <<>>]_vars

\* C3 witness: a start that asked for a rebuild of the base image has been
\* rejected for the conflict.
C3_Witness ==
    \E p \in Procs :
        /\ cmd[p] = "start"
        /\ result[p] = "conflict"
        /\ inp[p].rebuild

\* The table of section 4.5
TableProfile(gui, ros, remote) ==
    CASE gui = "none" /\ ~ros -> <<"base">>
      [] gui = "none" /\ ros -> <<"ros2">>
      [] gui = "x11" /\ ~ros -> <<"base">>
      [] gui = "x11" /\ ros -> <<"ros2">>
      [] gui = "webrtc" /\ ~ros /\ ~remote -> <<"webrtc", "local">>
      [] gui = "webrtc" /\ ~ros /\ remote -> <<"webrtc", "remote">>
      [] gui = "webrtc" /\ ros /\ ~remote -> <<"ros2", "webrtc", "local">>
      [] gui = "webrtc" /\ ros /\ remote -> <<"ros2", "webrtc", "remote">>

\* C4: for every (gui, ros, remote) the profile that start resolves, hands
\* to compose and labels the session with is the one of the table.
C4_ProfileAsInTable ==
    \A p \in Procs :
        (cmd[p] = "start" /\ result[p] \in {"started", "exit"}) =>
            /\ ci[p].profile = TableProfile(inp[p].gui, inp[p].ros, inp[p].remote)
            /\ ci[p].add_profiles = ci[p].profile
            /\ \A k \in containers :
                   k.session_id = ci[p].session_id => k.profile = ci[p].profile

\* C4 witness: a session started with (webrtc, ros, remote) runs under the
\* profile ros2-webrtc-remote.
C4_Witness ==
    \E p \in Procs :
        /\ result[p] = "started"
        /\ inp[p].gui = "webrtc" /\ inp[p].ros /\ inp[p].remote
        /\ \E k \in containers :
               /\ k.session_id = ci[p].session_id
               /\ k.profile = <<"ros2", "webrtc", "remote">>

LayerRank(layer) ==
    CASE layer = "base" -> 1
      [] layer = "ros2" -> 2
      [] layer = "webrtc" -> 3
      [] layer = "tailscale" -> 4

IsLayerStack(envs) ==
    /\ Len(envs) >= 1
    /\ envs[1] = "base"
    /\ \A i \in DOMAIN envs : envs[i] \in {"base", "ros2", "webrtc", "tailscale"}
    /\ \A i, j \in DOMAIN envs : i < j => LayerRank(envs[i]) < LayerRank(envs[j])

\* C5: the env files of every compose call of start and stop, and those the
\* controller holds when enter or stop runs, begin with base and keep the
\* order base, ros2, webrtc, tailscale without repetition.
C5_EnvLayersOrdered ==
    \A p \in Procs :
        /\ \A i \in DOMAIN calls[p] :
               calls[p][i].op \in {"build", "up", "down"} =>
                   IsLayerStack(calls[p][i].envs)
        /\ (pc[p] \in {"entering", "stopping"}
            \/ result[p] \in {"started", "attached", "stopped"}) =>
               IsLayerStack(ci[p].add_env_files)

\* C5 witness: a stop has handed all four layers to compose down.
C5_Witness ==
    \E p \in Procs :
        /\ result[p] = "stopped"
        /\ \E i \in DOMAIN calls[p] :
               /\ calls[p][i].op = "down"
               /\ calls[p][i].envs = <<"base", "ros2", "webrtc", "tailscale">>

\* The bring-up call of a finished start
UpCall(p) == calls[p][Len(calls[p])]

\* C6: at start the tunnel overlay and the tunnel env layer are included
\* exactly when gui = webrtc and remote; (none, no ros, not remote) gives
\* base, [base] and no overlay; (webrtc, ros, remote) gives
\* ros2-webrtc-remote, [base, ros2, webrtc, tunnel] and [tunnel overlay].
C6_TunnelIffWebrtcRemote ==
    \A p \in Procs :
        (cmd[p] = "start" /\ result[p] = "started") =>
            LET i == inp[p]
                up == UpCall(p)
                tunnel == i.gui = "webrtc" /\ i.remote
            IN  /\ up.op = "up"
                /\ ("tailscale" \in Elems(up.files)) <=> tunnel
                /\ ("tailscale" \in Elems(up.envs)) <=> tunnel
                /\ (i.gui = "none" /\ ~i.ros /\ ~i.remote) =>
                       /\ ci[p].profile = <<"base">>
                       /\ up.envs = <<"base">>
                       /\ up.files = <<"compose">>
                /\ (i.gui = "webrtc" /\ i.ros /\ i.remote) =>
                       /\ ci[p].profile = <<"ros2", "webrtc", "remote">>
                       /\ up.envs = <<"base", "ros2", "webrtc", "tailscale">>
                       /\ up.files = <<"compose", "tailscale">>

\* C6 witness: a (webrtc, ros, remote) start has made its bring-up call and
\* the sidecar of its session exists.
C6_Witness ==
    \E p \in Procs :
        /\ cmd[p] = "start" /\ result[p] = "started"
        /\ inp[p].gui = "webrtc" /\ inp[p].ros /\ inp[p].remote
        /\ ci[p].session_id \in sidecars

\* C7: the compose files passed to compose down at stop are those the
\* session was brought up with, for every gui mode and remote flag.
C7_StopUsesStartOverlays ==
    [][\A p \in Procs :
          (pc[p] = "stopping" /\ result'[p] = "stopped") =>
              \A k \in containers :
                  k.name = ci[p].container_name =>
                      Elems(calls'[p][1].files) = Elems(k.config_files)]_vars

\* C8: enter attaches only if the engine reports the container running at
\* the call; otherwise it ends with the not-running error, having made no
\* credential refresh and no attach.
C8_EnterOnlyWhenRunning ==
    [][\A p \in Procs :
          (pc[p] = "entering" /\ pc'[p] = "done") =>
              LET running == \E k \in containers : k.name = ci[p].container_name
              IN  /\ "exec" \in CallOps(calls'[p]) => running
                  /\ ~running =>
                         /\ result'[p] = "notrunning"
                         /\ calls'[p] = <<>>
                         /\ UNCHANGED world]_vars

\* C8 witness: enter on an x11 session that was stopped after it had been
\* selected has ended with the not-running error.
C8_Witness ==
    \E p \in Procs :
        /\ cmd[p] = "enter"
        /\ result[p] = "notrunning"
        /\ row[p].gui = "x11"

\* C9: stop on a container that is not reported running ends with the
\* not-running error and changes nothing: no compose down, no forced
\* removal, no sidecar removal, no credential cleanup.
C9_StopNotRunningChangesNothing ==
    [][\A p \in Procs :
          (pc[p] = "stopping" /\ pc'[p] = "done"
           /\ ~\E k \in containers : k.name = ci[p].container_name) =>
              /\ result'[p] = "notrunning"
              /\ calls'[p] = <<>>
              /\ ci'[p] = ci[p]
              /\ UNCHANGED world]_vars

\* C9 witness: stop on a session that another invocation stopped first has
\* ended with the not-running error.
C9_Witness ==
    \E p \in Procs :
        /\ cmd[p] = "stop"
        /\ result[p] = "notrunning"

\* C10: after the credential cleanup of a stop has completed, neither the
\* credential file nor the key nor the section of the session's namespace
\* remains, from any store and disk state.
C10_CleanupLeavesNothing ==
    \A p \in Procs :
        (cmd[p] = "stop" /\ result[p] = "stopped" /\ ci[p].gui = "x11") =>
            /\ ci[p].namespace \notin DOMAIN store
            /\ GetVariable(store, ci[p].namespace, XauthKey) \notin files

\* The path recorded for a namespace, and whether its file exists
Recorded(ns) == GetVariable(store, ns, XauthKey)

HasLiveFile(ns) == ns # NoNs /\ Recorded(ns) # NULL /\ Recorded(ns) \in files

\* The last direct call of caller p
LastCall(p) == calls[p][1]

\* C11: cleanup on a namespace for which nothing exists (no namespace set,
\* no recorded path, or no file at the recorded path) raises no error and
\* changes neither the store nor the disk; and a cleanup right after any
\* cleanup changes nothing, so two in a row leave what one leaves.
C11_CleanupNoOpAndIdempotent ==
    [][\A p \in Callers, ns \in CallNamespaces :
          CleanupCall(p, ns) =>
              /\ calls'[p][1].outcome = "ok"
              /\ ~HasLiveFile(ns) => UNCHANGED <<store, files, nextPath>>
              /\ X11Cleanup(CredState(store', files', nextPath'), ns)
                     = Ended(CredState(store', files', nextPath'), "ok", NULL)]_vars

\* C11 witness: a cleanup has run on a session's namespace whose recorded
\* file had disappeared, and returned without removing anything.
C11_Witness ==
    \E p \in Callers :
        /\ calls[p] # <<>>
        /\ LastCall(p).op = "x11_cleanup"
        /\ LastCall(p).outcome = "ok"
        /\ LastCall(p).path = NULL
        /\ LastCall(p).target \in SessionNamespaces
        /\ Recorded(LastCall(p).target) # NULL
        /\ Recorded(LastCall(p).target) \notin files

\* The states of the xauth utility in which it is installed
XauthInstalled == {"fails", "ok"}

\* C12: with the xauth utility installed, ensure on a namespace whose
\* recorded path exists returns that path, creates nothing and leaves the
\* store as it is; and an ensure right after an ensure that returned a path
\* returns the same path and changes nothing.
C12_EnsureIdempotent ==
    [][\A p \in Callers, ns \in SessionNamespaces, xauth \in XauthInstalled :
          EnsureCall(p, ns, xauth) =>
              LET after == CredState(store', files', nextPath')
              IN  /\ HasLiveFile(ns) =>
                         /\ calls'[p][1].outcome = "ok"
                         /\ calls'[p][1].path = Recorded(ns)
                         /\ UNCHANGED <<store, files, nextPath>>
                  /\ calls'[p][1].outcome = "ok" =>
                         \A again \in XauthInstalled :
                             ConfigureX11(after, ns, again)
                                 = Ended(after, "ok", calls'[p][1].path)]_vars

\* C12 witness: ensure has run again on the namespace that was given the
\* first file, after a second namespace was given its own, and has returned
\* the first file.
C12_Witness ==
    \E p \in Callers :
        /\ calls[p] # <<>>
        /\ LastCall(p).op = "configure_x11"
        /\ LastCall(p).outcome = "ok"
        /\ LastCall(p).target = Ns(SidOf(1))
        /\ LastCall(p).path = PathOf(1)
        /\ Recorded(Ns(SidOf(1))) = PathOf(1)
        /\ Recorded(Ns(SidOf(2))) = PathOf(2)
        /\ files = {PathOf(1), PathOf(2)}
        /\ nextPath = 3

\* C13: refresh on a namespace whose recorded credential file exists leaves
\* the recorded path as it is and a file at that path, whether the cookie
\* could be regenerated or not; so after any number of refreshes the store
\* records the path ensure recorded.
C13_RefreshKeepsPath ==
    [][\A p \in Callers, ns \in SessionNamespaces, display \in BOOLEAN,
          xauth \in XauthStates :
          (RefreshCall(p, ns, display, xauth) /\ HasLiveFile(ns)) =>
              /\ GetVariable(store', ns, XauthKey) = Recorded(ns)
              /\ Recorded(ns) \in files'
              /\ files' = files
              /\ calls'[p][1].path = Recorded(ns)]_vars

\* C13 witness: a refresh has regenerated the cookie of a session whose file
\* is the second one created, the first having been removed by the host.
C13_Witness ==
    \E p \in Callers :
        /\ calls[p] # <<>>
        /\ LastCall(p).op = "x11_refresh"
        /\ LastCall(p).outcome = "ok"
        /\ LastCall(p).path = PathOf(2)
        /\ Recorded(LastCall(p).target) = PathOf(2)
        /\ files = {PathOf(2)}

\* C14: when enter refreshes the credential of a running x11 session for
\* whose namespace no path is recorded, store and disk are left as they are;
\* if the forwarding flag of the namespace is "1" the invocation ends with
\* exit status 1 and attaches nothing (the exit passes enter's exception
\* guard), otherwise enter goes on to attach.
C14_RefreshWithoutRecord ==
    [][\A p \in Procs :
          (/\ pc[p] = "entering" /\ pc'[p] = "done"
           /\ ci[p].gui = "x11"
           /\ \E k \in containers : k.name = ci[p].container_name
           /\ Recorded(SessionNs(ci[p])) = NULL) =>
              /\ UNCHANGED <<store, files, nextPath>>
              /\ calls'[p][1].op = "x11_refresh"
              /\ calls'[p][1].target = SessionNs(ci[p])
              /\ IF GetVariable(store, SessionNs(ci[p]), EnabledKey) = "1"
                 THEN /\ result'[p] = "exit"
                      /\ "exec" \notin CallOps(calls'[p])
                 ELSE /\ result'[p] = "attached"
                      /\ "exec" \in CallOps(calls'[p])]_vars

\* C14 witness: enter on a running x11 session has ended with the exit of
\* the refresh: the flag is recorded for its namespace and no path is.
C14_Witness ==
    \E p \in Procs :
        /\ cmd[p] = "enter"
        /\ result[p] = "exit"
        /\ ci[p].gui = "x11"
        /\ GetVariable(store, ci[p].namespace, EnabledKey) = "1"
        /\ Recorded(ci[p].namespace) = NULL
        /\ \E k \in containers : k.name = ci[p].container_name

\* A step is a direct credential call of caller p on namespace ns
CredentialCall(p, ns) ==
    \/ \E xauth \in XauthStates : EnsureCall(p, ns, xauth)
    \/ \E display \in BOOLEAN, xauth \in XauthStates : RefreshCall(p, ns, display, xauth)
    \/ CleanupCall(p, ns)

\* C15: through any sequence of ensure, refresh and cleanup calls a
\* namespace has at most one live credential file, the one at its recorded
\* path.  A call creates at most one file, and only for a namespace that has
\* no live file; a file that receives a cookie is recorded for the namespace
\* of the call; the recorded path of a namespace is never pointed elsewhere
\* while its file exists; and no two namespaces record the same path.  (The
\* file mktemp leaves when xauth fails holds no cookie and is not recorded.)
C15_OneCredentialPerNamespace ==
    [][/\ \A p \in Callers, ns \in CallNamespaces :
            CredentialCall(p, ns) =>
                LET made == files' \ files
                    after == GetVariable(store', ns, XauthKey)
                IN  /\ Cardinality(made) <= 1
                    /\ made # {} => ~HasLiveFile(ns)
                    /\ (made # {} /\ calls'[p][1].outcome = "ok") => after \in made
                    /\ (after # NULL /\ after # Recorded(ns)) => after \in made
                    /\ HasLiveFile(ns) => after \in {NULL, Recorded(ns)}
                    /\ \A other \in SessionNamespaces \ {ns} :
                           GetVariable(store', other, XauthKey) = Recorded(other)
       /\ \A n1, n2 \in SessionNamespaces :
              (n1 # n2 /\ GetVariable(store', n1, XauthKey) # NULL) =>
                  GetVariable(store', n1, XauthKey) # GetVariable(store', n2, XauthKey)
      ]_vars

\* C15 witness: an ensure has given a namespace its second file, the first
\* one being gone, and that file is the only one on disk and the recorded one.
C15_Witness ==
    \E p \in Callers :
        /\ calls[p] # <<>>
        /\ LastCall(p).op = "configure_x11"
        /\ LastCall(p).outcome = "ok"
        /\ LastCall(p).path = PathOf(2)
        /\ Recorded(LastCall(p).target) = PathOf(2)
        /\ files = {PathOf(2)}
        /\ nextPath = 3

\* The credential calls in a log
CredentialOps == {"x11_check", "x11_refresh", "x11_cleanup"}

\* C16: the credential steps of start, enter and stop for a session use the
\* namespace X11-<session id> of that session, and under any interleaving of
\* invocations they leave every other session's section of the store and
\* every other session's recorded file as they were.
C16_NamespaceIsolation ==
    [][\A p \in Procs :
          (pc[p] \in {"starting", "entering", "stopping"} /\ pc'[p] = "done") =>
              LET own == Ns(ci'[p].session_id)
              IN  /\ \A i \in DOMAIN calls'[p] :
                         calls'[p][i].op \in CredentialOps => calls'[p][i].target = own
                  /\ \A ns \in (DOMAIN store \cup DOMAIN store') \ {own, LegacyNs} :
                         /\ ns \in DOMAIN store /\ ns \in DOMAIN store'
                         /\ store'[ns] = store[ns]
                         /\ Recorded(ns) \in files <=> Recorded(ns) \in files'
                         /\ Recorded(ns) \notin files' \ files]_vars

\* C16 witness: a stop has cleaned up the credential of its x11 session
\* while another session's credential is recorded and its file exists.
C16_Witness ==
    \E p \in Procs :
        /\ cmd[p] = "stop" /\ result[p] = "stopped"
        /\ ci[p].gui = "x11"
        /\ "x11_cleanup" \in CallOps(calls[p])
        /\ ci[p].namespace \notin DOMAIN store
        /\ \E ns \in DOMAIN store :
               /\ ns # ci[p].namespace
               /\ Recorded(ns) \in files

\* The positions <<file, line>> of the lines of fs that assign to key
AssignmentsTo(fs, key) ==
    {pos \in {<<i, j>> : i \in DOMAIN fs, j \in 1..MaxLines} :
        /\ pos[2] <= Len(fs[pos[1]])
        /\ LineEffect(fs[pos[1]][pos[2]]).kind = "assign"
        /\ LineEffect(fs[pos[1]][pos[2]]).key = key}

\* File order, then line order
Before(a, b) == a[1] < b[1] \/ (a[1] = b[1] /\ a[2] < b[2])

\* The keys assigned anywhere in fs
KeysOf(fs) ==
    {LineEffect(fs[i][j]).key :
        <<i, j>> \in {pos \in {<<i, j>> : i \in DOMAIN fs, j \in 1..MaxLines} :
                         /\ pos[2] <= Len(fs[pos[1]])
                         /\ LineEffect(fs[pos[1]][pos[2]]).kind = "assign"}}

\* C17: when the parser has gone through an ordered list of env files, the
\* mapping holds exactly the keys some line assigns, each with the value of
\* the last assignment to it in file order and then line order; so a key
\* defined in several files has the value of the last file that defines it.
C17_LastAssignmentWins ==
    \A p \in Callers :
        result[p] = "parsed" =>
            LET fs == ci[p].add_env_files
                dv == ci[p].dot_vars
            IN  /\ DOMAIN dv = KeysOf(fs)
                /\ \A key \in KeysOf(fs) :
                       \E last \in AssignmentsTo(fs, key) :
                           /\ \A a \in AssignmentsTo(fs, key) : a = last \/ Before(a, last)
                           /\ dv[key] = LineEffect(fs[last[1]][last[2]]).val

\* C17 witness: A is assigned 2 and then 1 in the first file and 3 (quoted,
\* with blanks) in the second, and the merged value is 3.
C17_Witness ==
    \E p \in Callers :
        /\ result[p] = "parsed"
        /\ ci[p].add_env_files =
               << <<<<"A", "=", "2">>, <<"A", "=", "1">>>>,
                  <<<<" ", "A", " ", "=", " ", "\"", "3", "\"", " ">>>> >>
        /\ ci[p].dot_vars[<<"A">>] = <<"3">>

\* A line that is not blank, not a comment and, once a leading "export " is
\* dropped, has no "="
Malformed(raw) ==
    /\ Strip(raw) # <<>>
    /\ Head(Strip(raw)) # "#"
    /\ "=" \notin Elems(StripExport(Strip(raw)))

\* The line the parser is about to read, if it is at a line
AtLine(p) ==
    /\ pc[p] = "parsing"
    /\ ci[p].file <= Len(ci[p].add_env_files)
    /\ ci[p].line <= Len(ci[p].add_env_files[ci[p].file])

CurrentLine(p) == ci[p].add_env_files[ci[p].file][ci[p].line]

\* C20: a line that is not blank, not a comment and has no "=" once the
\* export prefix is dropped is skipped: the parser raises nothing, leaves the
\* mapping as it is and goes on to the next line.
C20_MalformedLineSkipped ==
    [][\A p \in Callers :
          (AtLine(p) /\ Malformed(CurrentLine(p))) =>
              /\ pc'[p] = "parsing"
              /\ result'[p] = NULL
              /\ ci'[p].dot_vars = ci[p].dot_vars
              /\ ci'[p].file = ci[p].file
              /\ ci'[p].line = ci[p].line + 1]_vars

\* C20 witness: the parser has finished a file made of "export A" and
\* "A=1", and the mapping holds A = 1.
C20_Witness ==
    \E p \in Callers :
        /\ result[p] = "parsed"
        /\ ci[p].add_env_files =
               << <<<<"e", "x", "p", "o", "r", "t", " ", "A">>, <<"A", "=", "1">>>> >>
        /\ ci[p].dot_vars = Assign(<<>>, <<"A">>, <<"1">>)

\* A string of at least two characters whose first and last character are
\* the same quote character
Quoted(str) == Len(str) >= 2 /\ str[1] = str[Len(str)] /\ str[1] \in QuoteChars

C19_NormalizeIdempotent ==
    \A p \in Callers :
        ci[p].applied = 2 => ci[p].second = ci[p].first


\* The list command of caller p has read the registry
HasListed(p) == cmd[p] = "list" /\ pc[p] \in {"filtering", "done"} /\ ci[p].qok

\* The records list_running_sessions made of the line whose id is id
RecordsOf(p, id) == {k \in DOMAIN ci[p].rows : ci[p].rows[k].id = id}

\* A line of seven fields whose labels are all populated
FullRow(parts) ==
    /\ Len(parts) = 7
    /\ \A i \in 1..7 : ~EmptyAt(i, parts[i])

\* C21: a line of seven fields with every label populated yields a record
\* whose name, session_id, nickname, profile, gui and access are exactly the
\* fields of the line in that order, nothing inferred.
C21_FullRowPositional ==
    \A p \in Callers :
        HasListed(p) =>
            \A i \in DOMAIN ci[p].out :
                LET parts == ci[p].out[i]
                IN  FullRow(parts) =>
                      /\ RecordsOf(p, parts[1]) # {}
                      /\ \A k \in RecordsOf(p, parts[1]) :
                            ci[p].rows[k] =
                                [id |-> parts[1], name |-> parts[2],
                                 session_id |-> parts[3], nickname |-> parts[4],
                                 profile |-> parts[5], gui |-> parts[6],
                                 access |-> parts[7]]

\* A full line whose gui label is x11 although its profile names no gui
C21_Witness ==
    \E p \in Callers :
        /\ HasListed(p)
        /\ \E i \in DOMAIN ci[p].out :
              /\ FullRow(ci[p].out[i])
              /\ ci[p].out[i][6] = "X11"
              /\ \E k \in RecordsOf(p, ci[p].out[i][1]) : ci[p].rows[k].gui = "X11"

\* C22: a legacy line of five fields gets gui webrtc when its profile
\* contains webrtc and none otherwise, and access remote when the profile
\* ends with -remote, local when it contains webrtc without that ending,
\* unknown otherwise.
C22_LegacyRowInferred ==
    \A p \in Callers :
        HasListed(p) =>
            \A i \in DOMAIN ci[p].out :
                LET parts == ci[p].out[i]
                    webrtc == \E j \in DOMAIN parts[5] : parts[5][j] = "webrtc"
                    remote == Len(parts[5]) >= 2
                              /\ parts[5][Len(parts[5])] = "remote"
                IN  Len(parts) = 5 =>
                      /\ RecordsOf(p, parts[1]) # {}
                      /\ \A k \in RecordsOf(p, parts[1]) :
                            /\ ci[p].rows[k].gui = (IF webrtc THEN "webrtc" ELSE "none")
                            /\ ci[p].rows[k].access =
                                   (IF remote THEN "remote"
                                    ELSE IF webrtc THEN "local" ELSE "unknown")

\* The legacy lines of profile webrtc-remote and of profile base were listed
C22_Witness ==
    \E p \in Callers :
        /\ HasListed(p)
        /\ \E k \in DOMAIN ci[p].rows :
              /\ ci[p].rows[k].id = "c4"
              /\ ci[p].rows[k].gui = "webrtc" /\ ci[p].rows[k].access = "remote"
        /\ \E k \in DOMAIN ci[p].rows :
              /\ ci[p].rows[k].id = "c5"
              /\ ci[p].rows[k].gui = "none" /\ ci[p].rows[k].access = "unknown"

\* C23: a line whose field count is neither seven nor five yields no record.
C23_OtherCountsDiscarded ==
    \A p \in Callers :
        HasListed(p) =>
            \A i \in DOMAIN ci[p].out :
                Len(ci[p].out[i]) \notin {5, 7} => RecordsOf(p, ci[p].out[i][1]) = {}

\* C24: list_running_sessions never raises, and when the registry query
\* fails it returns the empty list.
C24_ListNeverRaises ==
    \A p \in Callers :
        cmd[p] = "list" =>
            /\ result[p] # "raise"
            /\ (pc[p] = "done" /\ ~ci[p].qok) => ci[p].rows = <<>> /\ result[p] = "norow"

\* The query failed although the registry had lines to print
C24_Witness ==
    \E p \in Callers :
        /\ cmd[p] = "list" /\ pc[p] = "done"
        /\ ~ci[p].qok /\ ci[p].out # <<>>
        /\ result[p] = "norow"

\* The filters as the documentation states them
Selected(r, f) ==
    /\ f.gui # "all" => LowerWord(r.gui) = LowerWord(f.gui)
    /\ f.access # "all" => LowerWord(r.access) = LowerWord(f.access)
    /\ \E i \in 0..(Len(r.nickname) - Len(f.nickname)) :
           \A j \in 1..Len(f.nickname) :
               LowerChar(r.nickname[i + j]) = LowerChar(f.nickname[j])

SelectedIndices(p) ==
    {i \in DOMAIN ci[p].rows : Selected(ci[p].rows[i], ci[p].filter)}

\* C25: the filters return exactly the records whose gui and access equal the
\* concrete filter values and whose nickname contains the filter substring,
\* all without regard to case, in their original order; with all, all and
\* the empty substring the result is the input.
C25_FiltersSelectInOrder ==
    \A p \in Callers :
        (cmd[p] = "list" /\ result[p] = "listed") =>
            /\ Len(ci[p].shown) = Cardinality(SelectedIndices(p))
            /\ \A i \in SelectedIndices(p) :
                  ci[p].shown[Cardinality({j \in SelectedIndices(p) : j <= i})]
                      = ci[p].rows[i]
            /\ ci[p].filter = NoFilter => ci[p].shown = ci[p].rows

\* The filter x11 kept the record labelled X11 and dropped another one
C25_Witness ==
    \E p \in Callers :
        /\ cmd[p] = "list" /\ result[p] = "listed"
        /\ ci[p].filter.gui = "x11"
        /\ Len(ci[p].rows) = 2 /\ Len(ci[p].shown) = 1
        /\ ci[p].shown[1].gui = "X11"


\* C26: two calls of generate_session_id in immediate succession return
\* distinct strings, also when the wall clock did not advance between them.
C26_ConsecutiveIdsDistinct ==
    \A p \in Callers :
        pc[p] = "generating" =>
            \A i \in 1..(Len(ci[p].ids) - 1) : ci[p].ids[i] # ci[p].ids[i + 1]

\* A pool the caller supplied and that holds no word
EmptyPool(pool) == pool.kind # "none" /\ pool.items = <<>>

\* C27: generate_nickname fails with ValueError whenever the supplied
\* descriptor pool or animal pool is empty, and with supplied pools of one
\* word each it returns descriptor, separator, animal.
C27_EmptyPoolFails ==
    \A p \in Callers :
        (pc[p] = "done" /\ result[p] \in {"named", "ValueError"}) =>
            /\ (EmptyPool(ci[p].descriptors) \/ EmptyPool(ci[p].animals))
                   => result[p] = "ValueError"
            /\ (Len(ci[p].descriptors.items) = 1 /\ Len(ci[p].animals.items) = 1)
                   => /\ result[p] = "named"
                      /\ ci[p].out = ci[p].descriptors.items[1] \o ci[p].sep
                                         \o ci[p].animals.items[1]


\* The calls of kind op that invocation p has on record after the step
CallsOf(p, op) == {i \in DOMAIN calls'[p] : calls'[p][i].op = op}

\* Invocation p runs start up to the end of ContainerInterface.start
StartRuns(p, display, xauth, buildOk, upOk) ==
    pc[p] = "starting" /\ StartUp(p, display, xauth, buildOk, upOk)

\* C28: start with gui = x11 and a display, on a host without the xauth
\* utility, ends the process with a non-zero exit: the bring-up is not
\* invoked and the exception guard around the credential check does not
\* swallow the exit.
C28_MissingXauthExits ==
    [][\A p \in Procs, buildOk, upOk \in BOOLEAN :
          (StartRuns(p, TRUE, "missing", buildOk, upOk) /\ inp[p].gui = "x11") =>
              /\ result'[p] = "exit"
              /\ CallsOf(p, "up") = {}
              /\ CallsOf(p, "x11_check") # {}
              /\ containers' = containers
              /\ sidecars' = sidecars]_vars

\* A start for x11 has ended with exit after its credential check, while a
\* session started earlier runs
C28_Witness ==
    \E p \in Procs :
        /\ cmd[p] = "start" /\ result[p] = "exit"
        /\ inp[p].gui = "x11"
        /\ \E i \in DOMAIN calls[p] : calls[p][i].op = "x11_check"
        /\ \A i \in DOMAIN calls[p] : calls[p][i].op # "up"
        /\ containers # {}

\* The credential check of the start ends the process
ExitsAtCheck(p, display, xauth) ==
    inp[p].gui = "x11" /\ display /\ xauth = "missing"

\* C29: start does not fail because of the engine's exit status: a pre-build
\* that fails is followed by the bring-up, and after a bring-up that fails
\* start returns normally.
C29_EngineStatusIgnored ==
    [][\A p \in Procs, display \in BOOLEAN, xauth \in XauthStates,
          buildOk, upOk \in BOOLEAN :
          (StartRuns(p, display, xauth, buildOk, upOk)
           /\ ~ExitsAtCheck(p, display, xauth)) =>
              /\ result'[p] = "started"
              /\ (inp[p].rebuild /\ ~buildOk) =>
                     /\ CallsOf(p, "build") = {1}
                     /\ CallsOf(p, "up") = {Len(calls'[p])}
              /\ ~upOk => /\ CallsOf(p, "up") = {Len(calls'[p])}
                          /\ containers' = containers]_vars

\* A start with the pre-build has returned normally although its bring-up
\* left no container
C29_Witness ==
    \E p \in Procs :
        /\ cmd[p] = "start" /\ result[p] = "started"
        /\ inp[p].rebuild
        /\ calls[p][1].op = "build"
        /\ calls[p][Len(calls[p])].op = "up"
        /\ \A cn \in containers : cn.session_id # ci[p].session_id

\* C30: the X11 overlay and the credential variables reach the bring-up only
\* if gui = x11 and a display is set; with gui = x11 and no display start
\* creates no credential, adds no overlay, raises nothing and still invokes
\* the bring-up.
C30_OverlayOnlyWithDisplay ==
    [][\A p \in Procs, display \in BOOLEAN, xauth \in XauthStates,
          buildOk, upOk \in BOOLEAN :
          StartRuns(p, display, xauth, buildOk, upOk) =>
              /\ \A i \in CallsOf(p, "up") :
                     ("x11" \in Elems(calls'[p][i].files) \/ calls'[p][i].target # <<>>)
                         => (inp[p].gui = "x11" /\ display)
              /\ (inp[p].gui = "x11" /\ ~display) =>
                     /\ result'[p] = "started"
                     /\ CallsOf(p, "up") = {Len(calls'[p])}
                     /\ "x11" \notin Elems(calls'[p][Len(calls'[p])].files)
                     /\ calls'[p][Len(calls'[p])].target = <<>>
                     /\ files' = files
                     /\ store' = store
                     /\ nextPath' = nextPath]_vars

\* Two x11 sessions run: the bring-up of one got the overlay and its
\* credential file, that of the other, started without a display, neither
C30_Witness ==
    \E p \in Procs :
        /\ cmd[p] = "start" /\ result[p] = "started" /\ inp[p].gui = "x11"
        /\ calls[p][Len(calls[p])].op = "up"
        /\ "x11" \notin Elems(calls[p][Len(calls[p])].files)
        /\ GetVariable(store, SessionNs(ci[p]), XauthKey) = NULL
        /\ nextPath = 2
        /\ \E cn \in containers :
              /\ cn.session_id = ci[p].session_id
              /\ "x11" \notin Elems(cn.config_files)
        /\ \E cn \in containers :
              /\ cn.gui = "x11"
              /\ "x11" \in Elems(cn.config_files)


\* The calls that hand container_name to the engine
HandleOps == {"exec", "rm"}

\* C31: whenever the controller uses container_name as an engine handle (the
\* inspection at the head of enter and stop, the attach, the forced removal)
\* it equals isaac-lab- followed by the controller's current profile and the
\* suffix.
C31_NameFollowsProfile ==
    \A p \in Procs :
        /\ pc[p] \in {"entering", "stopping"} =>
               ci[p].container_name = ContainerName(ci[p].profile, NoSuffix)
        /\ \A i \in DOMAIN calls[p] :
               calls[p][i].op \in HandleOps =>
                   calls[p][i].target = ContainerName(ci[p].profile, NoSuffix)


\* C33: a start for a local GUI session is rejected only when the registry
\* snapshot holds a running local GUI session; a running session that is
\* headless or remote never causes the rejection.
C33_RejectedOnlyForLocalGui ==
    \A p \in Procs :
        (cmd[p] = "start" /\ result[p] = "conflict") => LocalGuiSessions # {}

\* C34: a local GUI start does not pass the single-local-GUI check on the
\* strength of a failed registry query while a local GUI session runs.
C34_FailedQueryIsNoInformation ==
    [][\A p \in Procs, gui \in GuiModes, ros, remote, rebuild \in BOOLEAN :
          (/\ StartCheck(p, gui, ros, remote, rebuild, FALSE)
           /\ ~remote /\ gui \in {"x11", "webrtc"}
           /\ LocalGuiSessions # {}) =>
              pc'[p] # "starting"]_vars


\* Invocation p runs ContainerInterface.enter on a running container
EnterRuns(p, display, xauth) ==
    /\ pc[p] = "entering"
    /\ Enter(p, display, xauth)
    /\ \E k \in containers : k.name = ci[p].container_name

\* C35: enter on a running session with gui = x11 refreshes the credential of
\* namespace X11-<session id> and then attaches; a refresh that raises an
\* ordinary exception does not prevent the attach; for gui none or webrtc
\* there is no refresh.
C35_RefreshBeforeAttach ==
    [][\A p \in Procs, display \in BOOLEAN, xauth \in XauthStates :
          EnterRuns(p, display, xauth) =>
              LET own == Ns(ci[p].session_id)
                  ref == X11Refresh(Cred(TheWorld), own, display, xauth)
              IN  /\ ci[p].gui = "x11" =>
                         /\ calls'[p][1].op = "x11_refresh"
                         /\ calls'[p][1].target = own
                         /\ ref.outcome \in {"ok", "raise"} =>
                                /\ Len(calls'[p]) = 2
                                /\ calls'[p][2].op = "exec"
                                /\ calls'[p][2].target = ci[p].container_name
                                /\ result'[p] = "attached"
                  /\ ci[p].gui # "x11" =>
                         /\ Len(calls'[p]) = 1
                         /\ calls'[p][1].op = "exec"
                         /\ result'[p] = "attached"
                         /\ store' = store /\ files' = files]_vars

\* An enter has attached to an x11 session after the refresh of its recorded
\* credential
C35_Witness ==
    \E p \in Procs :
        /\ cmd[p] = "enter" /\ result[p] = "attached"
        /\ ci[p].gui = "x11"
        /\ Len(calls[p]) = 2
        /\ calls[p][1].op = "x11_refresh" /\ calls[p][2].op = "exec"
        /\ HasLiveFile(Ns(ci[p].session_id))


\* Invocation p runs ContainerInterface.stop on a running container
StopRuns(p, down, rmOk, clnOk) ==
    /\ pc[p] = "stopping"
    /\ Stop(p, down, rmOk, clnOk)
    /\ \E k \in containers : k.name = ci[p].container_name

\* C36: in stop the forced removal of the container comes right after
\* compose down, exactly when compose down left the container running; it is
\* never the first call and never made when compose down removed the
\* container.
C36_ForceRemoveIffStillRunning ==
    [][\A p \in Procs, down \in DownOutcomes, rmOk, clnOk \in BOOLEAN :
          StopRuns(p, down, rmOk, clnOk) =>
              /\ calls'[p][1].op = "down"
              /\ CallsOf(p, "rm") = (IF down = "none" THEN {2} ELSE {})
              /\ \A i \in CallsOf(p, "rm") :
                     calls'[p][i].target = ci[p].container_name]_vars

\* A stop whose compose down failed has removed the container by force
C36_Witness ==
    \E p \in Procs :
        /\ cmd[p] = "stop" /\ result[p] = "stopped"
        /\ calls[p][1].op = "down" /\ calls[p][2].op = "rm"
        /\ \A k \in containers : k.name # ci[p].container_name

\* C37: in stop the sidecar tailscale-<session id> is removed by force only
\* if the existence check made just before reports it; the check is made,
\* and the removal follows it, whether or not compose down and the forced
\* removal of the container succeeded.
C37_SidecarRemovedOnlyIfReported ==
    [][\A p \in Procs, down \in DownOutcomes, rmOk, clnOk \in BOOLEAN :
          StopRuns(p, down, rmOk, clnOk) =>
              LET sid == ci[p].session_id
                  reported == sid \in sidecars /\ down # "all"
              IN  /\ Cardinality(CallsOf(p, "sidecar_ps")) = 1
                  /\ \A i \in CallsOf(p, "sidecar_ps") :
                         /\ calls'[p][i].target = <<sid>>
                         /\ \A j \in CallsOf(p, "down") \cup CallsOf(p, "rm") : j < i
                         /\ CallsOf(p, "sidecar_rm") = (IF reported THEN {i + 1} ELSE {})
                  /\ \A i \in CallsOf(p, "sidecar_rm") : calls'[p][i].target = <<sid>>
                  /\ reported => sid \notin sidecars']_vars

\* A stop has removed the sidecar although compose down and the forced
\* removal both failed and the container still runs
C37_Witness ==
    \E p \in Procs :
        /\ cmd[p] = "stop" /\ result[p] = "stopped"
        /\ \E i \in DOMAIN calls[p] : calls[p][i].op = "sidecar_rm"
        /\ \E k \in containers : k.name = ci[p].container_name
        /\ ci[p].session_id \notin sidecars

\* C38: a stop that proceeds for a running session with gui = x11 invokes the
\* credential cleanup for X11-<session id> as its last call, after the
\* teardown and the sidecar steps and whatever their outcome, and returns
\* normally also when the cleanup raises; for gui none or webrtc no cleanup
\* is invoked.
C38_CleanupAlwaysForX11 ==
    [][\A p \in Procs, down \in DownOutcomes, rmOk, clnOk \in BOOLEAN :
          StopRuns(p, down, rmOk, clnOk) =>
              /\ result'[p] = "stopped"
              /\ ci[p].gui = "x11" =>
                     /\ CallsOf(p, "x11_cleanup") = {Len(calls'[p])}
                     /\ calls'[p][Len(calls'[p])].target = Ns(ci[p].session_id)
              /\ ci[p].gui # "x11" =>
                     /\ CallsOf(p, "x11_cleanup") = {}
                     /\ store' = store /\ files' = files]_vars

\* A stop of an x11 session has returned normally after a cleanup that left
\* the credential in place, the teardown having failed as well
C38_Witness ==
    \E p \in Procs :
        /\ cmd[p] = "stop" /\ result[p] = "stopped"
        /\ ci[p].gui = "x11"
        /\ calls[p][Len(calls[p])].op = "x11_cleanup"
        /\ HasLiveFile(Ns(ci[p].session_id))
        /\ \E k \in containers : k.name = ci[p].container_name


\* The session identifiers generate_session_id hands out
Sessions == {SidOf(n) : n \in 1..MaxSessions}

\* Session s has a running container
Running(s) == \E k \in containers : k.session_id = s

\* An invocation at position at is directed at session s
Directed(s, at) == \E p \in Procs : pc[p] = at /\ ci[p].session_id = s

\* The lifecycle state of session s: starting until its start has run the
\* bring-up, then running (entering, stopping while an enter or a stop
\* directed at it is under way) for as long as its container runs, stopped
\* afterwards.
LifecycleState(s) ==
    IF s \notin history THEN "starting"
    ELSE IF ~Running(s) THEN "stopped"
    ELSE IF Directed(s, "stopping") THEN "stopping"
    ELSE IF Directed(s, "entering") THEN "entering"
    ELSE "running"

\* The place of a state on the line requested, starting, running (with its
\* transient entering), stopping, stopped
LifecycleRank(st) ==
    CASE st = "starting" -> 1
      [] st \in {"running", "entering"} -> 2
      [] st = "stopping" -> 3
      [] st = "stopped" -> 4

\* C32: the lifecycle state of every session only advances along requested,
\* starting, running, (entering, running)*, stopping, stopped: an enter leaves
\* a running session running, only a stop makes it stopping, and no step
\* takes a stopping or stopped session back to running.
C32_LifecycleOnlyAdvances ==
    [][\A s \in Sessions :
          /\ LifecycleRank(LifecycleState(s)') >= LifecycleRank(LifecycleState(s))
          /\ (LifecycleState(s) = "entering" /\ LifecycleState(s)' # "entering")
                 => LifecycleState(s)' = "running"
          /\ (LifecycleState(s) # "stopping" /\ LifecycleState(s)' = "stopping")
                 => \E p \in Procs : cmd'[p] = "stop" /\ pc'[p] = "stopping"
                                     /\ pc[p] = "idle"]_vars

\* C39: a credential that start recorded under X11-<session id> is gone once
\* a stop invoked afterwards has ended, also when the bring-up of the session
\* had failed: after a stop, no session without a running container has a
\* recorded credential.
C39_StopRemovesCredential ==
    \A p \in Procs :
        (cmd[p] = "stop" /\ result[p] \in {"stopped", "norow", "notrunning"}) =>
            \A s \in Sessions :
                (s \in history /\ ~Running(s)) => Recorded(Ns(s)) = NULL


\* C40: for every choice of gui, ros and remote, the env files that enter and
\* stop recompute from the profile of the selected session are, in files and
\* order, those that start handed to the bring-up of that session.
C40_RecomputedEnvFilesEqual ==
    \A p \in Procs :
        pc[p] \in {"entering", "stopping"} =>
            \A k \in containers :
                k.name = ci[p].container_name => ci[p].add_env_files = k.env_files

\* An enter and a stop are each directed at a session of every kind of env
\* file list; here a stop at a session started with all four layers
C40_Witness ==
    \E p \in Procs :
        /\ pc[p] = "stopping"
        /\ ci[p].add_env_files = <<"base", "ros2", "webrtc", "tailscale">>
        /\ \E k \in containers :
              /\ k.name = ci[p].container_name
              /\ k.env_files = <<"base", "ros2", "webrtc", "tailscale">>
              /\ k.gui = "webrtc" /\ k.access = "remote"

====
